---- MODULE Spec2Model ----
(***************************************************************************)
(* Model of the BNCC retrieval-refinement pipeline: the validators         *)
(* (utils/validators), the node filters (utils/filters), the multi-query   *)
(* retrieval service (services/rag.service) and the HTTP controller        *)
(* (controllers/context.controller).                                       *)
(*                                                                         *)
(* Strings are sequences of characters.  A character is a one-element      *)
(* atom written as a TLA+ string; the non-ASCII characters of the source   *)
(* are written with ASCII names:                                           *)
(*   "e'" = e-acute   "E'" = E-acute   "e^" = e-circumflex  "E^" likewise  *)
(*   "a'" "A'" "i'" "I'" "o'" "O'" = acute vowels,  "c," "C," = cedilla,   *)
(*   "a~" "A~" = a-tilde,   "o_" = masculine ordinal, "a_" = feminine      *)
(*   ordinal, "deg" = degree sign, "--" = en dash, "---" = em dash.        *)
(* An optional number (number | null | undefined) is a sequence of length  *)
(* at most one: << >> is absent, <<n>> is the number n.  An optional       *)
(* string that the code only tests for truthiness (areaBNCC) is the empty  *)
(* sequence when absent.  A similarity score is an integer number of       *)
(* hundredths, so that (score * 100) of the source is the integer itself.  *)
(***************************************************************************)
EXTENDS Integers, Sequences, FiniteSets, TLC

VARIABLES
    call,          \* the last direct call of a pure function: [fn, args, ret]
    queryEngine,   \* rag.service module variable: 0 = null, n > 0 = engine built from load n
    indexLoads,    \* number of getIndex() calls started so far
    engineAssigns, \* number of assignments to queryEngine so far
    caller,        \* concurrent callers of initializeQueryEngine: position and locals
    pc,            \* position of the request being handled by gerarContextoController
    body,          \* req.body of that request
    queries,       \* consultarBNCC: number of planned queries
    qi,            \* consultarBNCC: loop index i (0-based)
    outcomes,      \* per planned query so far: [ok |-> BOOLEAN, nodes |-> sourceNodes]
    results,       \* consultarBNCC: results array (one entry per successful query)
    bncc,          \* the MultiQueryResult returned by consultarBNCC (or the initial empty one)
    generatorArgs, \* habilidades lists passed to gerarContextoPedagogico
    retrieverCalls,\* number of consultarBNCC invocations for this request
    responses      \* HTTP responses written for this request (sequence of status codes)

vars == <<call, queryEngine, indexLoads, engineAssigns, caller, pc, body, queries, qi,
          outcomes, results, bncc, generatorArgs, retrieverCalls, responses>>

-----------------------------------------------------------------------------
(* Characters and strings                                                  *)

DigitChars == <<"0", "1", "2", "3", "4", "5", "6", "7", "8", "9">>

UpperChars == <<"A", "B", "C", "D", "E", "F", "G", "H", "I", "J", "K", "L", "M",
                "N", "O", "P", "Q", "R", "S", "T", "U", "V", "W", "X", "Y", "Z",
                "A'", "E'", "I'", "O'", "E^", "A~", "C,">>

LowerChars == <<"a", "b", "c", "d", "e", "f", "g", "h", "i", "j", "k", "l", "m",
                "n", "o", "p", "q", "r", "s", "t", "u", "v", "w", "x", "y", "z",
                "a'", "e'", "i'", "o'", "e^", "a~", "c,">>

\* number of letters of the ASCII range [A-Z] at the head of UpperChars
AsciiLetters == 26

Range(s) == {s[i] : i \in 1..Len(s)}

PosIn(c, s) == CHOOSE i \in 1..Len(s) : s[i] = c

DigitSet == Range(DigitChars)

UpperSet == Range(UpperChars)

LowerSet == Range(LowerChars)

AsciiUpperSet == {UpperChars[i] : i \in 1..AsciiLetters}

AsciiLowerSet == {LowerChars[i] : i \in 1..AsciiLetters}

\* the character maps of toUpperCase and toLowerCase on the letters that have a case
UpperOf == [c \in LowerSet |-> UpperChars[PosIn(c, LowerChars)]]

LowerOf == [c \in UpperSet |-> LowerChars[PosIn(c, UpperChars)]]

DigitValOf == [c \in DigitSet |-> PosIn(c, DigitChars) - 1]

IsDigit(c) == c \in DigitSet

DigitVal(c) == DigitValOf[c]

\* the regular-expression class [A-Z], without the i flag
IsAsciiUpper(c) == c \in AsciiUpperSet

\* the regular-expression class [A-Z] under the i flag
IsAsciiLetter(c) == c \in AsciiUpperSet \/ c \in AsciiLowerSet

\* the regular-expression class \s
IsSpace(c) == c \in {" ", "\t", "\n", "\r"}

ToUpperChar(c) == IF c \in LowerSet THEN UpperOf[c] ELSE c

ToLowerChar(c) == IF c \in UpperSet THEN LowerOf[c] ELSE c

\* String.prototype.toUpperCase / toLowerCase
ToUpperCase(s) == [i \in 1..Len(s) |-> ToUpperChar(s[i])]

ToLowerCase(s) == [i \in 1..Len(s) |-> ToLowerChar(s[i])]

\* String.prototype.includes
Includes(s, p) == \E i \in 1..(Len(s) - Len(p) + 1) : SubSeq(s, i, i + Len(p) - 1) = p

\* String.prototype.startsWith
StartsWith(s, p) == Len(p) <= Len(s) /\ SubSeq(s, 1, Len(p)) = p

\* p occurs in s at position i, comparing characters as a regular expression
\* with the i flag does (both sides canonicalised to upper case)
MatchesAtIgnoreCase(s, i, p) ==
    /\ i >= 1
    /\ i + Len(p) - 1 <= Len(s)
    /\ \A k \in 1..Len(p) : ToUpperChar(s[i + k - 1]) = ToUpperChar(p[k])

\* String.prototype.trim
Trim(s) ==
    LET keep == {i \in 1..Len(s) : ~IsSpace(s[i])}
    IN  IF keep = {} THEN << >>
        ELSE LET lo == CHOOSE i \in keep : \A j \in keep : i <= j
                 hi == CHOOSE i \in keep : \A j \in keep : i >= j
             IN  SubSeq(s, lo, hi)

\* parseInt(digits, 10) of a non-empty run of decimal digits
RECURSIVE ParseInt(_)
ParseInt(ds) ==
    IF Len(ds) = 0 THEN 0
    ELSE 10 * ParseInt(SubSeq(ds, 1, Len(ds) - 1)) + DigitVal(ds[Len(ds)])

\* Math.abs
Abs(x) == IF x < 0 THEN -x ELSE x

None == << >>

Some(x) == <<x>>

-----------------------------------------------------------------------------
(* String literals of the source                                           *)

STR_SERIE_ACUTE_UPPER == <<"S", "E'", "R", "I", "E">>

STR_SERIE_UPPER == <<"S", "E", "R", "I", "E">>

STR_ano == <<"a", "n", "o">>

STR_serie_acute == <<"s", "e'", "r", "i", "e">>

STR_serie == <<"s", "e", "r", "i", "e">>

STR_EF == <<"E", "F">>

STR_EM == <<"E", "M">>

-----------------------------------------------------------------------------
(* utils/validators                                                        *)

\* variant: the accented upper-case spelling is not looked for
detectarNivelEscolar_soSemAcento(serie) ==
    IF Includes(ToUpperCase(serie), STR_SERIE_UPPER) THEN "medio" ELSE "fundamental"

detectarNivelEscolar(serie) ==
    LET serieUpper == ToUpperCase(serie)
    IN  IF Includes(serieUpper, STR_SERIE_ACUTE_UPPER) \/ Includes(serieUpper, STR_SERIE_UPPER)
        THEN "medio"
        ELSE "fundamental"

\* variant: any code of either level is accepted
validarHabilidadeNivel_qualquerNivel(codigo, nivelEscolar) ==
    StartsWith(codigo, STR_EM) \/ StartsWith(codigo, STR_EF)

validarHabilidadeNivel(codigo, nivelEscolar) ==
    IF nivelEscolar = "medio" THEN StartsWith(codigo, STR_EM) ELSE StartsWith(codigo, STR_EF)

\* the ordinal markers of the class [o_ a_ deg] in the grade pattern
OrdinalChars == {"o_", "a_", "deg"}

\* the alternation (ano|s-e-acute-rie|serie) of the grade pattern
GradeWords == {STR_ano, STR_serie_acute, STR_serie}

\* [ordinal]?\s*(ano|serie) matches at position p of s
GradeTailAt(s, p) ==
    \E o \in {0, 1} :
        /\ (o = 1 => (p <= Len(s) /\ s[p] \in OrdinalChars))
        /\ \E w \in 0..Len(s) :
              /\ p + o + w - 1 <= Len(s)
              /\ \A k \in (p + o)..(p + o + w - 1) : IsSpace(s[k])
              /\ \E word \in GradeWords : MatchesAtIgnoreCase(s, p + o + w, word)

\* the lengths n of a digit group (\d+) starting at i for which
\* /(\d+)[ordinal]?\s*(ano|serie)/i matches at i
GradeMatchLens(s, i) ==
    {n \in 1..(Len(s) - i + 1) :
        /\ \A k \in i..(i + n - 1) : IsDigit(s[k])
        /\ GradeTailAt(s, i + n)}

SetMax(S) == CHOOSE x \in S : \A y \in S : y <= x

SetMin(S) == CHOOSE x \in S : \A y \in S : x <= y

\* serie.match(/\d+/): the first maximal run of digits, or << >>
FirstDigitRun(s) ==
    LET starts == {i \in 1..Len(s) : IsDigit(s[i])}
    IN  IF starts = {} THEN << >>
        ELSE LET lo == SetMin(starts)
                 hi == SetMax({j \in lo..Len(s) : \A k \in lo..j : IsDigit(s[k])})
             IN  SubSeq(s, lo, hi)

extrairNumeroAno(serie) ==
    LET starts == {i \in 1..Len(serie) : GradeMatchLens(serie, i) # {}}
    IN  IF starts # {}
        THEN LET i == SetMin(starts)
                 n == SetMax(GradeMatchLens(serie, i))   \* \d+ is greedy
             IN  Some(ParseInt(SubSeq(serie, i, i + n - 1)))
        ELSE LET numeroMatch == FirstDigitRun(serie)
             IN  IF numeroMatch # << >> /\ ParseInt(numeroMatch) >= 1 /\ ParseInt(numeroMatch) <= 9
                 THEN Some(ParseInt(numeroMatch))
                 ELSE None

\* variant: the grade of a code is its first digit unless that is 0, compared within one year
validarHabilidadeAno_primeiroDigito(codigo, anoEsperado) ==
    IF anoEsperado = None THEN TRUE
    ELSE IF StartsWith(codigo, STR_EM) THEN TRUE
    ELSE IF ~(StartsWith(codigo, STR_EF) /\ Len(codigo) >= 4
              /\ IsDigit(codigo[3]) /\ IsDigit(codigo[4])) THEN TRUE
    ELSE LET d1 == DigitVal(codigo[3])
             d2 == DigitVal(codigo[4])
         IN  Abs((IF d1 = 0 THEN d2 ELSE d1) - anoEsperado[1]) <= 1

validarHabilidadeAno(codigo, anoEsperado) ==
    IF anoEsperado = None THEN TRUE
    ELSE IF StartsWith(codigo, STR_EM) THEN TRUE
    ELSE IF ~(StartsWith(codigo, STR_EF) /\ Len(codigo) >= 4
              /\ IsDigit(codigo[3]) /\ IsDigit(codigo[4])) THEN TRUE
    ELSE LET d1 == DigitVal(codigo[3])
             d2 == DigitVal(codigo[4])
             g  == anoEsperado[1]
         IN  IF d1 = 0 THEN Abs(d2 - g) <= 1
             ELSE g >= d1 /\ g <= d2


\* the TypeScript source of the validators (utils/validators.ts as listed after the
\* controller): extrairAnoDaHabilidade returns the first of the two digits after EF
extrairAnoDaHabilidadeTS(codigo) ==
    IF ~StartsWith(codigo, STR_EF) THEN None
    ELSE IF ~(Len(codigo) >= 4 /\ IsDigit(codigo[3]) /\ IsDigit(codigo[4])) THEN None
    ELSE LET primeiroDigito == DigitVal(codigo[3])
         IN  IF codigo[3] = codigo[4] THEN Some(primeiroDigito) ELSE Some(primeiroDigito)

\* the TypeScript source of validarHabilidadeAno: the extracted grade within 1 of the expected
validarHabilidadeAnoTS(codigo, anoEsperado) ==
    IF anoEsperado = None THEN TRUE
    ELSE IF StartsWith(codigo, STR_EM) THEN TRUE
    ELSE LET anoHabilidade == extrairAnoDaHabilidadeTS(codigo)
         IN  IF anoHabilidade = None THEN TRUE
             ELSE Abs(anoHabilidade[1] - anoEsperado[1]) <= 1

\* codigo.match(/^(EF|EM)\d{2}([A-Z]{2,3})\d{2,3}$/)[2], or << >> when there is no match
AreaLettersOf(codigo) ==
    LET ok(n, d) ==
            /\ Len(codigo) = 4 + n + d
            /\ (StartsWith(codigo, STR_EF) \/ StartsWith(codigo, STR_EM))
            /\ IsDigit(codigo[3]) /\ IsDigit(codigo[4])
            /\ \A k \in 5..(4 + n) : IsAsciiUpper(codigo[k])
            /\ \A k \in (5 + n)..Len(codigo) : IsDigit(codigo[k])
        cands == {n \in {2, 3} : \E d \in {2, 3} : ok(n, d)}
    IN  IF cands = {} THEN << >> ELSE SubSeq(codigo, 5, 4 + SetMax(cands))

\* table[key] of an object literal given as a sequence of <<key, value>>; << >> when undefined
Lookup(table, key) ==
    IF \E i \in 1..Len(table) : table[i][1] = key
    THEN table[CHOOSE i \in 1..Len(table) : table[i][1] = key][2]
    ELSE << >>

\* variant: the table without the entry of LI
mapeamentoFundamentalParaArea_semLI ==
    <<
    <<<<"H", "I">>, <<"C", "H", "S">>>>,
    <<<<"G", "E">>, <<"C", "H", "S">>>>,
    <<<<"L", "P">>, <<"L", "G", "G">>>>,
    <<<<"A", "R">>, <<"L", "G", "G">>>>,
    <<<<"E", "F">>, <<"L", "G", "G">>>>,
    <<<<"M", "A">>, <<"M", "A", "T">>>>,
    <<<<"C", "I">>, <<"C", "N", "T">>>>
    >>

mapeamentoFundamentalParaArea ==
    <<
    <<<<"H", "I">>, <<"C", "H", "S">>>>,
    <<<<"G", "E">>, <<"C", "H", "S">>>>,
    <<<<"L", "P">>, <<"L", "G", "G">>>>,
    <<<<"A", "R">>, <<"L", "G", "G">>>>,
    <<<<"E", "F">>, <<"L", "G", "G">>>>,
    <<<<"L", "I">>, <<"L", "G", "G">>>>,
    <<<<"M", "A">>, <<"M", "A", "T">>>>,
    <<<<"C", "I">>, <<"C", "N", "T">>>>
    >>

validarHabilidadeArea(codigo, areaEsperada) ==
    IF areaEsperada = << >> THEN TRUE
    ELSE LET codigoDisciplina == AreaLettersOf(codigo)
         IN  IF codigoDisciplina = << >> THEN FALSE
             ELSE IF Len(areaEsperada) = 2 THEN codigoDisciplina = areaEsperada
             ELSE IF Len(areaEsperada) = 3 /\ StartsWith(codigo, STR_EM)
                  THEN codigoDisciplina = areaEsperada
             ELSE LET areaGeralFundamental == Lookup(mapeamentoFundamentalParaArea, codigoDisciplina)
                  IN  areaGeralFundamental # << >> /\ areaGeralFundamental = areaEsperada

MAPEAMENTO_MEDIO ==
    <<
    <<<<"h", "i", "s", "t", "o'", "r", "i", "a">>, <<"C", "H", "S">>>>,
    <<<<"h", "i", "s", "t", "o", "r", "i", "a">>, <<"C", "H", "S">>>>,
    <<<<"g", "e", "o", "g", "r", "a", "f", "i", "a">>, <<"C", "H", "S">>>>,
    <<<<"f", "i", "l", "o", "s", "o", "f", "i", "a">>, <<"C", "H", "S">>>>,
    <<<<"s", "o", "c", "i", "o", "l", "o", "g", "i", "a">>, <<"C", "H", "S">>>>,
    <<<<"c", "i", "e^", "n", "c", "i", "a", "s", " ", "h", "u", "m", "a", "n", "a", "s">>, <<"C", "H", "S">>>>,
    <<<<"c", "i", "e", "n", "c", "i", "a", "s", " ", "h", "u", "m", "a", "n", "a", "s">>, <<"C", "H", "S">>>>,
    <<<<"c", "i", "e^", "n", "c", "i", "a", "s", " ", "h", "u", "m", "a", "n", "a", "s", " ", "e", " ", "s", "o", "c", "i", "a", "i", "s">>, <<"C", "H", "S">>>>,
    <<<<"c", "i", "e", "n", "c", "i", "a", "s", " ", "h", "u", "m", "a", "n", "a", "s", " ", "e", " ", "s", "o", "c", "i", "a", "i", "s">>, <<"C", "H", "S">>>>,
    <<<<"p", "o", "r", "t", "u", "g", "u", "e^", "s">>, <<"L", "G", "G">>>>,
    <<<<"p", "o", "r", "t", "u", "g", "u", "e", "s">>, <<"L", "G", "G">>>>,
    <<<<"l", "i'", "n", "g", "u", "a", " ", "p", "o", "r", "t", "u", "g", "u", "e", "s", "a">>, <<"L", "G", "G">>>>,
    <<<<"l", "i", "n", "g", "u", "a", " ", "p", "o", "r", "t", "u", "g", "u", "e", "s", "a">>, <<"L", "G", "G">>>>,
    <<<<"a", "r", "t", "e", "s">>, <<"L", "G", "G">>>>,
    <<<<"e", "d", "u", "c", "a", "c,", "a~", "o", " ", "f", "i'", "s", "i", "c", "a">>, <<"L", "G", "G">>>>,
    <<<<"e", "d", "u", "c", "a", "c", "a", "o", " ", "f", "i", "s", "i", "c", "a">>, <<"L", "G", "G">>>>,
    <<<<"i", "n", "g", "l", "e^", "s">>, <<"L", "G", "G">>>>,
    <<<<"i", "n", "g", "l", "e", "s">>, <<"L", "G", "G">>>>,
    <<<<"l", "i'", "n", "g", "u", "a", " ", "i", "n", "g", "l", "e", "s", "a">>, <<"L", "G", "G">>>>,
    <<<<"l", "i", "n", "g", "u", "a", " ", "i", "n", "g", "l", "e", "s", "a">>, <<"L", "G", "G">>>>,
    <<<<"e", "s", "p", "a", "n", "h", "o", "l">>, <<"L", "G", "G">>>>,
    <<<<"l", "i", "n", "g", "u", "a", "g", "e", "n", "s">>, <<"L", "G", "G">>>>,
    <<<<"p", "r", "o", "d", "u", "c,", "a~", "o", " ", "t", "e", "x", "t", "u", "a", "l">>, <<"L", "G", "G">>>>,
    <<<<"p", "r", "o", "d", "u", "c", "a", "o", " ", "t", "e", "x", "t", "u", "a", "l">>, <<"L", "G", "G">>>>,
    <<<<"r", "e", "d", "a", "c,", "a~", "o">>, <<"L", "G", "G">>>>,
    <<<<"r", "e", "d", "a", "c", "a", "o">>, <<"L", "G", "G">>>>,
    <<<<"m", "a", "t", "e", "m", "a'", "t", "i", "c", "a">>, <<"M", "A", "T">>>>,
    <<<<"m", "a", "t", "e", "m", "a", "t", "i", "c", "a">>, <<"M", "A", "T">>>>,
    <<<<"b", "i", "o", "l", "o", "g", "i", "a">>, <<"C", "N", "T">>>>,
    <<<<"q", "u", "i'", "m", "i", "c", "a">>, <<"C", "N", "T">>>>,
    <<<<"q", "u", "i", "m", "i", "c", "a">>, <<"C", "N", "T">>>>,
    <<<<"f", "i'", "s", "i", "c", "a">>, <<"C", "N", "T">>>>,
    <<<<"f", "i", "s", "i", "c", "a">>, <<"C", "N", "T">>>>,
    <<<<"c", "i", "e^", "n", "c", "i", "a", "s">>, <<"C", "N", "T">>>>,
    <<<<"c", "i", "e", "n", "c", "i", "a", "s">>, <<"C", "N", "T">>>>,
    <<<<"c", "i", "e^", "n", "c", "i", "a", "s", " ", "d", "a", " ", "n", "a", "t", "u", "r", "e", "z", "a">>, <<"C", "N", "T">>>>,
    <<<<"c", "i", "e", "n", "c", "i", "a", "s", " ", "d", "a", " ", "n", "a", "t", "u", "r", "e", "z", "a">>, <<"C", "N", "T">>>>
    >>

MAPEAMENTO_FUNDAMENTAL ==
    <<
    <<<<"h", "i", "s", "t", "o'", "r", "i", "a">>, <<"H", "I">>>>,
    <<<<"h", "i", "s", "t", "o", "r", "i", "a">>, <<"H", "I">>>>,
    <<<<"g", "e", "o", "g", "r", "a", "f", "i", "a">>, <<"G", "E">>>>,
    <<<<"p", "o", "r", "t", "u", "g", "u", "e^", "s">>, <<"L", "P">>>>,
    <<<<"p", "o", "r", "t", "u", "g", "u", "e", "s">>, <<"L", "P">>>>,
    <<<<"l", "i'", "n", "g", "u", "a", " ", "p", "o", "r", "t", "u", "g", "u", "e", "s", "a">>, <<"L", "P">>>>,
    <<<<"l", "i", "n", "g", "u", "a", " ", "p", "o", "r", "t", "u", "g", "u", "e", "s", "a">>, <<"L", "P">>>>,
    <<<<"a", "r", "t", "e", "s">>, <<"A", "R">>>>,
    <<<<"e", "d", "u", "c", "a", "c,", "a~", "o", " ", "f", "i'", "s", "i", "c", "a">>, <<"E", "F">>>>,
    <<<<"e", "d", "u", "c", "a", "c", "a", "o", " ", "f", "i", "s", "i", "c", "a">>, <<"E", "F">>>>,
    <<<<"l", "i", "n", "g", "u", "a", " ", "i", "n", "g", "l", "e^", "s", "a">>, <<"L", "I">>>>,
    <<<<"l", "i", "n", "g", "u", "a", " ", "i", "n", "g", "l", "e", "s", "a">>, <<"L", "I">>>>,
    <<<<"l", "i'", "n", "g", "u", "a", " ", "i", "n", "g", "l", "e", "s", "a">>, <<"L", "I">>>>,
    <<<<"i", "n", "g", "l", "e^", "s">>, <<"L", "I">>>>,
    <<<<"e", "s", "p", "a", "n", "h", "o", "l">>, <<"L", "I">>>>,
    <<<<"m", "a", "t", "e", "m", "a'", "t", "i", "c", "a">>, <<"M", "A">>>>,
    <<<<"m", "a", "t", "e", "m", "a", "t", "i", "c", "a">>, <<"M", "A">>>>,
    <<<<"c", "i", "e^", "n", "c", "i", "a", "s">>, <<"C", "I">>>>,
    <<<<"c", "i", "e", "n", "c", "i", "a", "s">>, <<"C", "I">>>>,
    <<<<"c", "i", "e^", "n", "c", "i", "a", "s", " ", "n", "a", "t", "u", "r", "a", "i", "s">>, <<"C", "I">>>>,
    <<<<"c", "i", "e", "n", "c", "i", "a", "s", " ", "n", "a", "t", "u", "r", "a", "i", "s">>, <<"C", "I">>>>
    >>

disciplinasEspecificasMedio ==
    {<<"b", "i", "o", "l", "o", "g", "i", "a">>,
     <<"q", "u", "i'", "m", "i", "c", "a">>,
     <<"q", "u", "i", "m", "i", "c", "a">>,
     <<"f", "i'", "s", "i", "c", "a">>,
     <<"f", "i", "s", "i", "c", "a">>,
     <<"f", "i", "l", "o", "s", "o", "f", "i", "a">>,
     <<"s", "o", "c", "i", "o", "l", "o", "g", "i", "a">>}


\* nivelEscolar is "medio", "fundamental" or "" (not passed)
detectarAreaBNCC(disciplina, nivelEscolar) ==
    LET disciplinaLower == Trim(ToLowerCase(disciplina))
    IN  IF nivelEscolar = "" /\ disciplinaLower \in disciplinasEspecificasMedio
        THEN Lookup(MAPEAMENTO_MEDIO, disciplinaLower)
        ELSE IF nivelEscolar = "medio"
        THEN Lookup(MAPEAMENTO_MEDIO, disciplinaLower)
        ELSE Lookup(MAPEAMENTO_FUNDAMENTAL, disciplinaLower)

STR_Ensino_medio == <<"E", "n", "s", "i", "n", "o", " ", "m", "e'", "d", "i", "o">>

STR_Ensino_fundamental ==
    <<"E", "n", "s", "i", "n", "o", " ", "f", "u", "n", "d", "a", "m", "e", "n", "t", "a", "l">>

obterDescricaoNivelEscolar(serie) ==
    IF detectarNivelEscolar(serie) = "medio" THEN STR_Ensino_medio ELSE STR_Ensino_fundamental

-----------------------------------------------------------------------------
(* utils/filters                                                           *)
(* A node is [text, score, page]: node.node.text ("" when absent),         *)
(* node.score in hundredths, node.node.metadata.page_number (optional).    *)

BOOST_HABILIDADE_NIVEL_CORRETO == 5

BOOST_HABILIDADE_AREA_CORRETA == 10

BOOST_HABILIDADE_ANO_CORRETO == 8

BOOST_MENCIONOU_NIVEL_CORRETO == 4

BOOST_DISCIPLINA == 3

BOOST_SERIE == 2

BOOST_TEMA_EXATO == 80

BOOST_TEMA_PARCIAL == 10

PENALIDADE_HABILIDADE_NIVEL_ERRADO == -50

\* variant: a code of another area weighs what a code of the other level weighs
PENALIDADE_HABILIDADE_AREA_ERRADA_comoNivel == PENALIDADE_HABILIDADE_NIVEL_ERRADO

PENALIDADE_HABILIDADE_AREA_ERRADA == -40

PENALIDADE_HABILIDADE_ANO_ERRADO == -35

PENALIDADE_MENCIONOU_NIVEL_ERRADO == -20

\* hard cutoff on penalizacaoNivel in the filter
CORTE_PENALIDADE == -30

\* length limit of a description and of the slice of returned skills
LIMITE_DESCRICAO == 200

MINIMO_DESCRICAO == 10

LIMITE_HABILIDADES == 15

STR_ensino_medio_acute == <<"e", "n", "s", "i", "n", "o", " ", "m", "e'", "d", "i", "o">>

STR_ensino_medio == <<"e", "n", "s", "i", "n", "o", " ", "m", "e", "d", "i", "o">>

STR_ensino_fundamental ==
    <<"e", "n", "s", "i", "n", "o", " ", "f", "u", "n", "d", "a", "m", "e", "n", "t", "a", "l">>

STR_anos_iniciais == <<"a", "n", "o", "s", " ", "i", "n", "i", "c", "i", "a", "i", "s">>

STR_anos_finais == <<"a", "n", "o", "s", " ", "f", "i", "n", "a", "i", "s">>

STR_fundamental_ii == <<"f", "u", "n", "d", "a", "m", "e", "n", "t", "a", "l", " ", "i", "i">>

palavrasExcecao ==
    {<<"t", "o">>, <<"b", "e">>, <<"f", "e'">>, <<"u", "p">>, <<"o", "n">>, <<"i", "n">>,
     <<"a", "t">>, <<"b", "y">>, <<"o", "f">>}

\* a character of the code pattern: literal letters and [A-Z] follow the i flag when ci
IsLit(c, lit, ci) == IF ci THEN ToUpperChar(c) = lit ELSE c = lit

IsLetterOfCode(c, ci) == IF ci THEN IsAsciiLetter(c) ELSE IsAsciiUpper(c)

\* length of the match of /(EF\d{2}[A-Z]{2}\d{2}|EM\d{2}[A-Z]{3}\d{2,3})/ at position i
\* of s (0 when it does not match there); ci is the i flag
CodeLenAt(s, i, ci) ==
    LET has(k) == i + k - 1 <= Len(s)
        ch(k) == s[i + k - 1]
        head(second) ==
            /\ has(4)
            /\ IsLit(ch(1), "E", ci) /\ IsLit(ch(2), second, ci)
            /\ IsDigit(ch(3)) /\ IsDigit(ch(4))
        ef == /\ head("F") /\ has(8)
              /\ IsLetterOfCode(ch(5), ci) /\ IsLetterOfCode(ch(6), ci)
              /\ IsDigit(ch(7)) /\ IsDigit(ch(8))
        em == /\ head("M") /\ has(9)
              /\ IsLetterOfCode(ch(5), ci) /\ IsLetterOfCode(ch(6), ci) /\ IsLetterOfCode(ch(7), ci)
              /\ IsDigit(ch(8)) /\ IsDigit(ch(9))
    IN  IF ef THEN 8
        ELSE IF em THEN (IF has(10) /\ IsDigit(ch(10)) THEN 10 ELSE 9)
        ELSE 0

\* successive regex.exec calls of the global pattern, lastIndex starting at from - 1:
\* the sequence of [index, len] of the non-overlapping matches, left to right
RECURSIVE ScanCodes(_, _, _)
ScanCodes(s, from, ci) ==
    LET hits == {i \in from..Len(s) : CodeLenAt(s, i, ci) > 0}
    IN  IF hits = {} THEN << >>
        ELSE <<[index |-> SetMin(hits), len |-> CodeLenAt(s, SetMin(hits), ci)]>>
             \o ScanCodes(s, SetMin(hits) + CodeLenAt(s, SetMin(hits), ci), ci)

\* the strings matched at the places ms of s
MatchedStrings(s, ms) ==
    [k \in 1..Len(ms) |-> SubSeq(s, ms[k].index, ms[k].index + ms[k].len - 1)]

\* text.match(pattern with g): the matched strings
MatchCodes(s, ci) == MatchedStrings(s, ScanCodes(s, 1, ci))

\* String.prototype.split(' ')
RECURSIVE Split(_)
Split(s) ==
    LET sp == {i \in 1..Len(s) : s[i] = " "}
    IN  IF sp = {} THEN <<s>>
        ELSE <<SubSeq(s, 1, SetMin(sp) - 1)>> \o Split(SubSeq(s, SetMin(sp) + 1, Len(s)))

RECURSIVE SumSeq(_)
SumSeq(xs) == IF Len(xs) = 0 THEN 0 ELSE xs[1] + SumSeq(Tail(xs))

\* boost contributed by one code found in the text (step 4 of the scorer)
BoostDoCodigo(codigoUpper, nivelEscolar, anoEsperado, areaBNCC) ==
    IF validarHabilidadeNivel(codigoUpper, nivelEscolar)
    THEN BOOST_HABILIDADE_NIVEL_CORRETO
         + (IF anoEsperado # None /\ nivelEscolar = "fundamental"
               /\ validarHabilidadeAno(codigoUpper, anoEsperado)
            THEN BOOST_HABILIDADE_ANO_CORRETO ELSE 0)
         + (IF areaBNCC # << >> /\ validarHabilidadeArea(codigoUpper, areaBNCC)
            THEN BOOST_HABILIDADE_AREA_CORRETA ELSE 0)
    ELSE 0

\* variant: a code of the right level and of another grade is not penalised
PenalidadeDoCodigo_semAno(codigoUpper, nivelEscolar, anoEsperado, areaBNCC) ==
    IF validarHabilidadeNivel(codigoUpper, nivelEscolar)
    THEN (IF areaBNCC # << >> /\ ~validarHabilidadeArea(codigoUpper, areaBNCC)
          THEN PENALIDADE_HABILIDADE_AREA_ERRADA ELSE 0)
    ELSE PENALIDADE_HABILIDADE_NIVEL_ERRADO

\* penalty contributed by one code found in the text (step 4 of the scorer)
PenalidadeDoCodigo(codigoUpper, nivelEscolar, anoEsperado, areaBNCC) ==
    IF validarHabilidadeNivel(codigoUpper, nivelEscolar)
    THEN (IF anoEsperado # None /\ nivelEscolar = "fundamental"
             /\ ~validarHabilidadeAno(codigoUpper, anoEsperado)
          THEN PENALIDADE_HABILIDADE_ANO_ERRADO ELSE 0)
         + (IF areaBNCC # << >> /\ ~validarHabilidadeArea(codigoUpper, areaBNCC)
            THEN PENALIDADE_HABILIDADE_AREA_ERRADA ELSE 0)
    ELSE PENALIDADE_HABILIDADE_NIVEL_ERRADO

\* steps 0 to 3 and the boost of step 5 of the scorer: what the text alone earns
BoostDoTexto(texto, temaLower, disciplina, serie, nivelEscolar) ==
    LET palavraNivelCorreto ==
            IF nivelEscolar = "medio" THEN STR_ensino_medio_acute ELSE STR_ensino_fundamental
        ehPalavraChave(p) == Len(p) > 2 \/ p \in palavrasExcecao
        palavrasChaveTema == SelectSeq(Split(temaLower), ehPalavraChave)
        anoMatch == FirstDigitRun(serie)
    IN  (IF Includes(texto, temaLower) THEN BOOST_TEMA_EXATO ELSE 0)
        + SumSeq([k \in 1..Len(palavrasChaveTema) |->
                    IF Includes(texto, palavrasChaveTema[k]) THEN BOOST_TEMA_PARCIAL ELSE 0])
        + (IF Includes(texto, ToLowerCase(disciplina)) THEN BOOST_DISCIPLINA ELSE 0)
        + (IF anoMatch # << >> /\ Includes(texto, anoMatch) THEN BOOST_SERIE ELSE 0)
        + (IF Includes(texto, palavraNivelCorreto) THEN BOOST_MENCIONOU_NIVEL_CORRETO ELSE 0)

\* the penalty of step 5 of the scorer: mentions of the other level
PenalidadeDoTexto(texto, nivelEscolar) ==
    LET palavrasNivelErrado ==
            IF nivelEscolar = "medio"
            THEN <<STR_ensino_fundamental, STR_anos_iniciais, STR_anos_finais, STR_fundamental_ii>>
            ELSE <<STR_ensino_medio_acute, STR_ensino_medio>>
    IN  SumSeq([k \in 1..Len(palavrasNivelErrado) |->
                  IF Includes(texto, palavrasNivelErrado[k])
                  THEN PENALIDADE_MENCIONOU_NIVEL_ERRADO ELSE 0])

\* step 4 of the scorer over all the codes found, each upper-cased
BoostDosCodigos(codigosEncontrados, nivelEscolar, anoEsperado, areaBNCC) ==
    SumSeq([k \in 1..Len(codigosEncontrados) |->
              BoostDoCodigo(ToUpperCase(codigosEncontrados[k]), nivelEscolar, anoEsperado, areaBNCC)])

PenalidadeDosCodigos(codigosEncontrados, nivelEscolar, anoEsperado, areaBNCC) ==
    SumSeq([k \in 1..Len(codigosEncontrados) |->
              PenalidadeDoCodigo(ToUpperCase(codigosEncontrados[k]), nivelEscolar, anoEsperado,
                                 areaBNCC)])

\* the object the callback returns: the node with its four added fields
NodeEnriquecido(node, boostScore, penaltyScore, codigosEncontrados) ==
    [text |-> node.text, score |-> node.score, page |-> node.page,
     matchCount |-> boostScore,
     penalizacaoNivel |-> penaltyScore,
     boostedScore |-> node.score + boostScore + penaltyScore,
     nivelCorreto |-> (penaltyScore >= 0 \/ Len(codigosEncontrados) = 0)]

\* the callback once texto, temaLower and codigosEncontrados are known
PontuarNode(node, texto, temaLower, codigosEncontrados, disciplina, serie, areaBNCC, nivelEscolar, anoEsperado) ==
    NodeEnriquecido(
        node,
        BoostDoTexto(texto, temaLower, disciplina, serie, nivelEscolar)
            + BoostDosCodigos(codigosEncontrados, nivelEscolar, anoEsperado, areaBNCC),
        PenalidadeDosCodigos(codigosEncontrados, nivelEscolar, anoEsperado, areaBNCC)
            + PenalidadeDoTexto(texto, nivelEscolar),
        codigosEncontrados)

\* the callback of nodes.map in filtrarNodesPorRelevancia
EnriquecerNode(node, tema, disciplina, serie, areaBNCC, nivelEscolar, anoEsperado) ==
    PontuarNode(node, ToLowerCase(node.text), Trim(ToLowerCase(tema)),
                MatchCodes(ToLowerCase(node.text), TRUE),
                disciplina, serie, areaBNCC, nivelEscolar, anoEsperado)

\* variant: no hard cutoff on the penalty
MantemNode_semCorte(node) == node.matchCount > 0 \/ node.nivelCorreto

\* the callback of enrichedNodes.filter in filtrarNodesPorRelevancia
MantemNode(node) ==
    IF node.penalizacaoNivel < CORTE_PENALIDADE THEN FALSE
    ELSE node.matchCount > 0 \/ node.nivelCorreto

\* variant: descending, but an element is placed before the elements it ties with
RECURSIVE SortByBoostedScore_instavel(_)
SortByBoostedScore_instavel(ns) ==
    IF Len(ns) <= 1 THEN ns
    ELSE LET rest == SortByBoostedScore_instavel(SubSeq(ns, 1, Len(ns) - 1))
             x == ns[Len(ns)]
             before == {k \in 1..Len(rest) : rest[k].boostedScore > x.boostedScore}
             n == IF before = {} THEN 0 ELSE SetMax(before)
         IN  SubSeq(rest, 1, n) \o <<x>> \o SubSeq(rest, n + 1, Len(rest))

\* Array.prototype.sort with (a, b) => b.boostedScore - a.boostedScore: stable, descending
RECURSIVE SortByBoostedScore(_)
SortByBoostedScore(ns) ==
    IF Len(ns) <= 1 THEN ns
    ELSE LET rest == SortByBoostedScore(SubSeq(ns, 1, Len(ns) - 1))
             x == ns[Len(ns)]
             before == {k \in 1..Len(rest) : rest[k].boostedScore >= x.boostedScore}
             n == IF before = {} THEN 0 ELSE SetMax(before)
         IN  SubSeq(rest, 1, n) \o <<x>> \o SubSeq(rest, n + 1, Len(rest))

\* nodes.map(callback) with the nivelEscolar and anoEsperado computed on entry
EnriquecerNodes(nodes, tema, disciplina, serie, areaBNCC, nivelEscolar, anoEsperado) ==
    [k \in 1..Len(nodes) |->
        EnriquecerNode(nodes[k], tema, disciplina, serie, areaBNCC, nivelEscolar, anoEsperado)]

filtrarNodesPorRelevancia(nodes, tema, disciplina, serie, areaBNCC) ==
    SortByBoostedScore(
        SelectSeq(EnriquecerNodes(nodes, tema, disciplina, serie, areaBNCC,
                                  detectarNivelEscolar(serie), extrairNumeroAno(serie)),
                  MantemNode))

\* String.prototype.search(pattern): 0-based index of the first match, -1 when none
SearchCode(s) ==
    LET hits == {i \in 1..Len(s) : CodeLenAt(s, i, FALSE) > 0}
    IN  IF hits = {} THEN -1 ELSE SetMin(hits) - 1

\* the class [- en-dash em-dash ) : \s] of the list-marker pattern
IsMarcador(c) == c \in {"-", "--", "---", ")", ":"} \/ IsSpace(c)

\* s.replace(/^\s*[marker]+/, '')
RemoveMarcadores(s) ==
    LET stops == {i \in 1..Len(s) : ~IsMarcador(s[i])}
        first == IF stops = {} THEN Len(s) + 1 ELSE SetMin(stops)
    IN  SubSeq(s, first, Len(s))

\* texto.indexOf('\n', inicioDescricao), or texto.length when there is none
\* (1-based, exclusive end of the line)
FimLinha(texto, inicioDescricao) ==
    LET quebras == {k \in inicioDescricao..Len(texto) : texto[k] = "\n"}
    IN  IF quebras = {} THEN Len(texto) + 1 ELSE SetMin(quebras)

\* the end of the description: the next code on the line, or the end of the line
FimDescricao(inicioDescricao, fimLinha, proximoCodigoMatch) ==
    IF proximoCodigoMatch # -1 THEN inicioDescricao + proximoCodigoMatch ELSE fimLinha

\* descriptions longer than the limit are cut and end with "..."
LimitarDescricao(descricao) ==
    IF Len(descricao) > LIMITE_DESCRICAO
    THEN SubSeq(descricao, 1, LIMITE_DESCRICAO) \o <<".", ".", ".">>
    ELSE descricao

\* the description that starts at inicioDescricao (1-based) on a line that ends before fimLinha
DescricaoNaLinha(texto, inicioDescricao, fimLinha) ==
    LimitarDescricao(Trim(RemoveMarcadores(
        SubSeq(texto, inicioDescricao,
               FimDescricao(inicioDescricao, fimLinha,
                            SearchCode(SubSeq(texto, inicioDescricao, fimLinha - 1))) - 1))))

\* the description captured for the match at 1-based position index of length len
DescricaoDe(texto, index, len) ==
    DescricaoNaLinha(texto, index + len, FimLinha(texto, index + len))

\* Map.prototype.has / get / set on a Map kept as the sequence of its entries in insertion order
MapHas(m, k) == \E i \in 1..Len(m) : m[i].codigo = k

MapGet(m, k) == m[CHOOSE i \in 1..Len(m) : m[i].codigo = k].descricao

\* variant: set always adds an entry
MapSet_semChave(m, k, v) == Append(m, [codigo |-> k, descricao |-> v])

\* variant: set on a key of the map moves its entry to the end
MapSet_moveParaFim(m, k, v) ==
    LET outra(e) == e.codigo # k
    IN  Append(SelectSeq(m, outra), [codigo |-> k, descricao |-> v])

MapSet(m, k, v) ==
    IF MapHas(m, k)
    THEN [i \in 1..Len(m) |-> IF m[i].codigo = k THEN [codigo |-> k, descricao |-> v] ELSE m[i]]
    ELSE Append(m, [codigo |-> k, descricao |-> v])

\* variant: a description of the same length replaces the one kept
RegistrarDescricao_empateSubstitui(habilidades, codigo, descricao) ==
    IF Len(descricao) > MINIMO_DESCRICAO
       /\ (~MapHas(habilidades, codigo) \/ Len(MapGet(habilidades, codigo)) <= Len(descricao))
    THEN MapSet(habilidades, codigo, descricao)
    ELSE habilidades

\* habilidades.set(codigo, descricao) when the description is long enough and is the
\* first or the longest seen for the code
RegistrarDescricao(habilidades, codigo, descricao) ==
    IF Len(descricao) > MINIMO_DESCRICAO
       /\ (~MapHas(habilidades, codigo) \/ Len(MapGet(habilidades, codigo)) < Len(descricao))
    THEN MapSet(habilidades, codigo, descricao)
    ELSE habilidades

\* the body of the while loop of extrairHabilidadesBNCC for one match
RegistrarHabilidade(habilidades, texto, match) ==
    RegistrarDescricao(habilidades,
                       SubSeq(texto, match.index, match.index + match.len - 1),
                       DescricaoDe(texto, match.index, match.len))

RECURSIVE RegistrarMatches(_, _, _)
RegistrarMatches(habilidades, texto, matches) ==
    IF Len(matches) = 0 THEN habilidades
    ELSE RegistrarMatches(RegistrarHabilidade(habilidades, texto, matches[1]), texto, Tail(matches))

\* the for loop over the nodes of extrairHabilidadesBNCC
RECURSIVE ColetarHabilidades(_, _)
ColetarHabilidades(habilidades, nodes) ==
    IF Len(nodes) = 0 THEN habilidades
    ELSE ColetarHabilidades(
             RegistrarMatches(habilidades, nodes[1].text, ScanCodes(nodes[1].text, 1, FALSE)),
             Tail(nodes))

\* JavaScript truthiness of an optional number: absent and 0 are falsy
Truthy(n) == n # None /\ n[1] # 0

HabilidadeValida(codigo, nivelEscolar, areaBNCC, anoEsperado) ==
    LET nivelValido == validarHabilidadeNivel(codigo, nivelEscolar)
        areaValida == areaBNCC = << >> \/ validarHabilidadeArea(codigo, areaBNCC)
        anoValido == ~Truthy(anoEsperado) \/ validarHabilidadeAno(codigo, anoEsperado)
    IN  nivelValido /\ areaValida /\ anoValido

\* todasHabilidades.filter(callback)
FiltrarHabilidades(todasHabilidades, nivelEscolar, areaBNCC, anoEsperado) ==
    LET passa(h) == HabilidadeValida(h.codigo, nivelEscolar, areaBNCC, anoEsperado)
    IN  SelectSeq(todasHabilidades, passa)

\* variant: the whole array
Slice0_semLimite(xs, n) == xs

\* Array.prototype.slice(0, n)
Slice0(xs, n) == SubSeq(xs, 1, IF Len(xs) < n THEN Len(xs) ELSE n)

extrairHabilidadesBNCC(nodes, nivelEscolar, areaBNCC, anoEsperado) ==
    Slice0(FiltrarHabilidades(ColetarHabilidades(<< >>, nodes), nivelEscolar, areaBNCC, anoEsperado),
           LIMITE_HABILIDADES)

\* variant: the page is not looked up in seenPages
VisitarNode_semSeenPages(st, node, maxNodes) ==
    IF Truthy(node.page) /\ Len(st.uniqueNodes) < maxNodes
    THEN [uniqueNodes |-> Append(st.uniqueNodes, node),
          seenPages |-> st.seenPages \cup {node.page[1]}]
    ELSE st

\* one iteration of the for loop of removerNodesDuplicados; st is [uniqueNodes, seenPages]
VisitarNode(st, node, maxNodes) ==
    IF Truthy(node.page)
       /\ node.page[1] \notin st.seenPages
       /\ Len(st.uniqueNodes) < maxNodes
    THEN [uniqueNodes |-> Append(st.uniqueNodes, node),
          seenPages |-> st.seenPages \cup {node.page[1]}]
    ELSE st

RECURSIVE RemoverDesde(_, _, _)
RemoverDesde(st, nodes, maxNodes) ==
    IF Len(nodes) = 0 THEN st
    ELSE RemoverDesde(VisitarNode(st, nodes[1], maxNodes), Tail(nodes), maxNodes)

removerNodesDuplicados(nodes, maxNodes) ==
    RemoverDesde([uniqueNodes |-> << >>, seenPages |-> {}], nodes, maxNodes).uniqueNodes

-----------------------------------------------------------------------------
(* services/rag.service: the query planner of consultarBNCC                *)

\* the literal parts of the query templates of consultarBNCC
QueryText ==
    [
     habilidadesCompetencias |->
         <<" ", "h", "a", "b", "i", "l", "i", "d", "a", "d", "e", "s", " ", "c", "o", "m", "p", "e", "t", "e^", "n", "c", "i", "a", "s">>,
     ensinoMedio |->
         <<"E", "n", "s", "i", "n", "o", " ", "M", "e'", "d", "i", "o", " ">>,
     objetosConhecimento |->
         <<" ", "o", "b", "j", "e", "t", "o", "s", " ", "c", "o", "n", "h", "e", "c", "i", "m", "e", "n", "t", "o">>,
     em13 |->
         <<"E", "M", "1", "3">>,
     habilidades |->
         <<" ", "h", "a", "b", "i", "l", "i", "d", "a", "d", "e", "s">>,
     ordinalAno |->
         <<"o_", " ", "a", "n", "o", " ">>,
     ingl |->
         <<"i", "n", "g", "l">>,
     bncc |->
         <<" ", "B", "N", "C", "C">>,
     competencias |->
         <<" ", "c", "o", "m", "p", "e", "t", "e^", "n", "c", "i", "a", "s", " ">>,
     sp |->
         <<" ">>
    ]

\* Number.prototype.toString of a non-negative integer
RECURSIVE NumToString(_)
NumToString(n) ==
    IF n < 10 THEN <<DigitChars[n + 1]>>
    ELSE NumToString(n \div 10) \o <<DigitChars[(n % 10) + 1]>>

\* String.prototype.padStart(2, '0')
PadStart2(s) == IF Len(s) >= 2 THEN s ELSE IF Len(s) = 1 THEN <<"0">> \o s ELSE <<"0", "0">>

\* variant: the fundamental branch with the composed prefix does not require an area
PlanejarQueries_semExigirArea(tema, disciplina, serie, anoSerie) ==
    LET nivelEscolar == detectarNivelEscolar(serie)
        areaBNCC == detectarAreaBNCC(disciplina, nivelEscolar)
        anoEsperado == extrairNumeroAno(serie)
        q == QueryText
    IN  IF nivelEscolar = "medio" /\ areaBNCC # << >>
        THEN << anoSerie \o q.sp \o serie \o q.sp \o areaBNCC \o q.sp \o disciplina \o q.sp
                    \o tema \o q.habilidadesCompetencias,
                q.ensinoMedio \o areaBNCC \o q.sp \o tema \o q.objetosConhecimento,
                q.em13 \o areaBNCC \o q.sp \o disciplina \o q.sp \o tema >>
        ELSE IF nivelEscolar = "fundamental" /\ anoEsperado # None
        THEN LET codigoAno == PadStart2(NumToString(anoEsperado[1]))
                 prefixo == STR_EF \o codigoAno \o areaBNCC
             IN  << serie \o q.sp \o disciplina \o q.sp \o tema \o q.habilidades \o q.sp \o prefixo,
                    prefixo \o q.sp \o disciplina \o q.sp \o tema,
                    NumToString(anoEsperado[1]) \o q.ordinalAno \o disciplina \o q.sp \o tema
                        \o q.objetosConhecimento,
                    tema \o q.sp \o prefixo,
                    IF Includes(ToLowerCase(disciplina), q.ingl) THEN tema
                    ELSE tema \o q.bncc >>
        ELSE << anoSerie \o q.sp \o serie \o q.sp \o disciplina \o q.sp \o tema \o q.habilidades,
                anoSerie \o q.sp \o disciplina \o q.sp \o serie \o q.sp \o tema
                    \o q.objetosConhecimento,
                anoSerie \o q.sp \o disciplina \o q.competencias \o tema \o q.sp \o serie >>

\* the queries array built by consultarBNCC
PlanejarQueries(tema, disciplina, serie, anoSerie) ==
    LET nivelEscolar == detectarNivelEscolar(serie)
        areaBNCC == detectarAreaBNCC(disciplina, nivelEscolar)
        anoEsperado == extrairNumeroAno(serie)
        q == QueryText
    IN  IF nivelEscolar = "medio" /\ areaBNCC # << >>
        THEN << anoSerie \o q.sp \o serie \o q.sp \o areaBNCC \o q.sp \o disciplina \o q.sp
                    \o tema \o q.habilidadesCompetencias,
                q.ensinoMedio \o areaBNCC \o q.sp \o tema \o q.objetosConhecimento,
                q.em13 \o areaBNCC \o q.sp \o disciplina \o q.sp \o tema >>
        ELSE IF nivelEscolar = "fundamental" /\ anoEsperado # None /\ areaBNCC # << >>
        THEN LET codigoAno == PadStart2(NumToString(anoEsperado[1]))
                 prefixo == STR_EF \o codigoAno \o areaBNCC
             IN  << serie \o q.sp \o disciplina \o q.sp \o tema \o q.habilidades \o q.sp \o prefixo,
                    prefixo \o q.sp \o disciplina \o q.sp \o tema,
                    NumToString(anoEsperado[1]) \o q.ordinalAno \o disciplina \o q.sp \o tema
                        \o q.objetosConhecimento,
                    tema \o q.sp \o prefixo,
                    IF Includes(ToLowerCase(disciplina), q.ingl) THEN tema
                    ELSE tema \o q.bncc >>
        ELSE << anoSerie \o q.sp \o serie \o q.sp \o disciplina \o q.sp \o tema \o q.habilidades,
                anoSerie \o q.sp \o disciplina \o q.sp \o serie \o q.sp \o tema
                    \o q.objetosConhecimento,
                anoSerie \o q.sp \o disciplina \o q.competencias \o tema \o q.sp \o serie >>

\* results.flatMap(r => r.nodes)
RECURSIVE FlatMap(_)
FlatMap(rs) == IF Len(rs) = 0 THEN << >> ELSE rs[1] \o FlatMap(Tail(rs))

\* maxNodes passed by consultarBNCC to removerNodesDuplicados
TOP_NODES == 10

\* the MultiQueryResult consultarBNCC returns, given its aggregated and its unique nodes
ResultadoDe(rs, allNodes, uniqueNodes, nivelEscolar, areaBNCC, anoEsperado) ==
    [status |-> "retornou",
     respostas |-> Len(rs),     \* combinedResponse joins one response per successful query
     allNodes |-> allNodes,
     sourceNodes |-> uniqueNodes,
     habilidades |-> extrairHabilidadesBNCC(uniqueNodes, nivelEscolar, areaBNCC, anoEsperado)]

\* consultarBNCC after the query loop, with the nivelEscolar, areaBNCC and anoEsperado it
\* computed on entry: aggregation, scoring, deduplication, extraction
AgregarClassificado(rs, tema, disciplina, serie, nivelEscolar, areaBNCC, anoEsperado) ==
    ResultadoDe(rs, FlatMap(rs),
                removerNodesDuplicados(
                    filtrarNodesPorRelevancia(FlatMap(rs), tema, disciplina, serie, areaBNCC),
                    TOP_NODES),
                nivelEscolar, areaBNCC, anoEsperado)

AgregarResultados(rs, tema, disciplina, serie) ==
    AgregarClassificado(rs, tema, disciplina, serie,
                        detectarNivelEscolar(serie),
                        detectarAreaBNCC(disciplina, detectarNivelEscolar(serie)),
                        extrairNumeroAno(serie))

\* variant: the objects are created once, at module level, and every call works on them
NovosLocais_compartilhados(deixado) == deixado

\* the objects the filters create on entry, whatever an earlier call left: uniqueNodes = []
\* and seenPages = new Set() in removerNodesDuplicados, habilidades = new Map() and the
\* pattern literal, its lastIndex 0, in extrairHabilidadesBNCC
NovosLocais(deixado) ==
    [uniqueNodes |-> << >>, seenPages |-> {}, habilidades |-> << >>, lastIndex |-> 0]

\* the for loop of extrairHabilidadesBNCC, the first regex.exec starting at lastIndex; every
\* while loop ends with an exec that finds nothing and leaves lastIndex at 0
ColetarDesde(habilidades, nodes, lastIndex) ==
    IF Len(nodes) = 0 THEN habilidades
    ELSE ColetarHabilidades(
             RegistrarMatches(habilidades, nodes[1].text,
                              ScanCodes(nodes[1].text, lastIndex + 1, FALSE)),
             Tail(nodes))

\* what one run of scoring, deduplication and extraction returns, and what its objects hold
\* when it returns
ResultadoDaExecucao(st, todasHabilidades, nivelEscolar, areaBNCC, anoEsperado) ==
    [sourceNodes |-> st.uniqueNodes,
     habilidades |-> Slice0(FiltrarHabilidades(todasHabilidades, nivelEscolar, areaBNCC, anoEsperado),
                            LIMITE_HABILIDADES),
     deixado |-> [uniqueNodes |-> st.uniqueNodes, seenPages |-> st.seenPages,
                  habilidades |-> todasHabilidades, lastIndex |-> 0]]

ExecutarCom(locais, nodesFiltrados, nivelEscolar, areaBNCC, anoEsperado) ==
    ResultadoDaExecucao(
        RemoverDesde([uniqueNodes |-> locais.uniqueNodes, seenPages |-> locais.seenPages],
                     nodesFiltrados, TOP_NODES),
        ColetarDesde(locais.habilidades,
                     RemoverDesde([uniqueNodes |-> locais.uniqueNodes, seenPages |-> locais.seenPages],
                                  nodesFiltrados, TOP_NODES).uniqueNodes,
                     locais.lastIndex),
        nivelEscolar, areaBNCC, anoEsperado)

\* filtrarNodesPorRelevancia, removerNodesDuplicados and extrairHabilidadesBNCC as consultarBNCC
\* runs them, after an earlier run that left the objects deixado
ExecutarDepoisDe(deixado, nodes, tema, disciplina, serie, areaBNCC) ==
    ExecutarCom(NovosLocais(deixado),
                filtrarNodesPorRelevancia(nodes, tema, disciplina, serie, areaBNCC),
                detectarNivelEscolar(serie), areaBNCC, extrairNumeroAno(serie))

-----------------------------------------------------------------------------
(* Inputs of the request pipeline                                          *)

\* bound on the number of passages the retriever returns to one request, all queries together
MaxNodes == 2

TEMA_GUERRA_FRIA == <<"g", "u", "e", "r", "r", "a", " ", "f", "r", "i", "a">>

DISC_HISTORIA == <<"H", "i", "s", "t", "o", "r", "i", "a">>

DISC_ROBOTICA == <<"R", "o", "b", "o", "t", "i", "c", "a">>

SERIE_9_ANO == <<"9", "o_", " ", "A", "N", "O">>

SERIE_2_SERIE == <<"2", "a_", " ", "S", "E'", "R", "I", "E">>

SERIE_ANO == <<"A", "N", "O">>

\* a request field: absent, empty, whitespace-only, or one of the given strings
Campos(valores) == {None, Some(<< >>), Some(<<" ", " ">>)} \cup {Some(v) : v \in valores}

Bodies ==
    [tema : Campos({TEMA_GUERRA_FRIA}),
     disciplina : Campos({DISC_HISTORIA, DISC_ROBOTICA}),
     serie : Campos({SERIE_9_ANO, SERIE_2_SERIE, SERIE_ANO})]

\* passages of the index the retriever can return
RagNodes ==
    { [text |-> <<"E", "F", "0", "9", "H", "I", "0", "1", " ", "g", "u", "e", "r", "r", "a", " ",
                  "f", "r", "i", "a", " ", "n", "o", " ", "m", "u", "n", "d", "o">>,
       score |-> 50, page |-> Some(1)],
      [text |-> <<"E", "M", "1", "3", "C", "H", "S", "1", "0", "1", " ", "a", "n", "a", "l", "i",
                  "s", "a", "r", " ", "a", " ", "g", "u", "e", "r", "r", "a", " ", "f", "r", "i", "a">>,
       score |-> 40, page |-> Some(2)],
      [text |-> <<"e", "m", "1", "3", "x", "E", "F", "0", "9", "H", "I", "0", "2", " ", "-", " ",
                  "c", "o", "n", "f", "l", "i", "t", "o", "s", " ", "d", "o", " ", "e", "n", "s",
                  "i", "n", "o", " ", "f", "u", "n", "d", "a", "m", "e", "n", "t", "a", "l">>,
       score |-> 30, page |-> Some(1)] }

\* all sequences over S of length at most n
RECURSIVE SeqsUpTo(_, _)
SeqsUpTo(S, n) ==
    IF n = 0 THEN {<< >>}
    ELSE LET prev == SeqsUpTo(S, n - 1)
         IN  prev \cup {Append(p, x) : p \in prev, x \in S}

\* the sourceNodes one engine.query can resolve with
RagNodeLists == SeqsUpTo(RagNodes, MaxNodes)

-----------------------------------------------------------------------------
(* controllers/context.controller and services/rag.service: the requests   *)
(* of one process, handled one after the other.  The only state requests   *)
(* share is the queryEngine cache; its initialisation by concurrent         *)
(* requests is the subject of SpecInit below, which also counts the loads. *)

\* variant: the field is tested without trim
CampoAusente_semTrim(campo) == campo = None \/ campo[1] = << >>

\* !campo?.trim()
CampoAusente(campo) == campo = None \/ Trim(campo[1]) = << >>

\* variant: the codes are validated against the fundamental level whatever the request
ValidacaoFinal_sempreFundamental(habilidades, nivelEscolar) ==
    LET valida(h) == validarHabilidadeNivel(h.codigo, "fundamental")
    IN  SelectSeq(habilidades, valida)

\* bnccResponse.habilidades.filter(h => validarHabilidadeNivel(h.codigo, nivelEscolar))
ValidacaoFinal(habilidades, nivelEscolar) ==
    LET valida(h) == validarHabilidadeNivel(h.codigo, nivelEscolar)
    IN  SelectSeq(habilidades, valida)

\* bncc before consultarBNCC has settled; status becomes "retornou" or "rejeitou"
SemResultado ==
    [status |-> "pendente", respostas |-> 0, allNodes |-> << >>, sourceNodes |-> << >>,
     habilidades |-> << >>]

NoCall == [fn |-> "none", args |-> << >>, ret |-> << >>]

CallerIdle == [pc |-> "idle", load |-> 0, got |-> 0]

\* bound on the number of concurrent callers of initializeQueryEngine
NumCallers == 3

Callers == 1..NumCallers

Init ==
    /\ call = NoCall
    /\ queryEngine = 0
    /\ indexLoads = 0
    /\ engineAssigns = 0
    /\ caller = [c \in Callers |-> CallerIdle]
    /\ pc = "idle"
    /\ body = [tema |-> None, disciplina |-> None, serie |-> None]
    /\ queries = << >>
    /\ qi = 0
    /\ outcomes = << >>
    /\ results = << >>
    /\ bncc = SemResultado
    /\ generatorArgs = << >>
    /\ retrieverCalls = 0
    /\ responses = << >>

\* gerarContextoController up to its first await: validation, then consultarBNCC up to
\* the await of initializeQueryEngine (which awaits getIndex when the cache is empty)
ReceberRequisicao(b) ==
    /\ pc = "idle"
    /\ body' = b
    /\ IF CampoAusente(b.tema) \/ CampoAusente(b.disciplina) \/ CampoAusente(b.serie)
       THEN /\ responses' = Append(responses, 400)
            /\ pc' = "done"
            /\ UNCHANGED retrieverCalls
       ELSE /\ retrieverCalls' = retrieverCalls + 1
            /\ pc' = IF queryEngine = 0 THEN "await_index" ELSE "planejar"
            /\ UNCHANGED responses
    /\ UNCHANGED <<call, queryEngine, indexLoads, engineAssigns, caller, queries, qi, outcomes,
                   results, bncc, generatorArgs>>

\* getIndex resolves: initializeQueryEngine assigns the cache and returns
IndexCarregado ==
    /\ pc = "await_index"
    /\ queryEngine' = 1
    /\ pc' = "planejar"
    /\ UNCHANGED <<call, indexLoads, engineAssigns, caller, body, queries, qi, outcomes, results, bncc,
                   generatorArgs, retrieverCalls, responses>>

\* getIndex throws: consultarBNCC rejects and the controller's catch answers 500
IndexFalhou ==
    /\ pc = "await_index"
    /\ bncc' = [bncc EXCEPT !.status = "rejeitou"]
    /\ responses' = Append(responses, 500)
    /\ pc' = "done"
    /\ UNCHANGED <<call, queryEngine, indexLoads, engineAssigns, caller, body, queries, qi,
                   outcomes, results, generatorArgs, retrieverCalls>>

\* consultarBNCC resumes with the engine: classification and query planning, up to the
\* await of the first engine.query
PlanejarConsulta ==
    /\ pc = "planejar"
    /\ queries' = PlanejarQueries(body.tema[1], body.disciplina[1], body.serie[1],
                                  obterDescricaoNivelEscolar(body.serie[1]))
    /\ qi' = 0
    /\ pc' = "query"
    /\ UNCHANGED <<call, queryEngine, indexLoads, engineAssigns, caller, body, outcomes, results,
                   bncc, generatorArgs, retrieverCalls, responses>>

\* variant: gerarContextoPedagogico is called only when there are skills
EntregarAoGerador_soComHabilidades(r, nivelEscolar) ==
    /\ bncc' = r
    /\ generatorArgs' = IF r.habilidades = << >> THEN generatorArgs
                        ELSE Append(generatorArgs, ValidacaoFinal(r.habilidades, nivelEscolar))
    /\ pc' = "await_generator"

\* consultarBNCC returns r: the controller's final validation, up to the await of
\* gerarContextoPedagogico
EntregarAoGerador(r, nivelEscolar) ==
    /\ bncc' = r
    /\ generatorArgs' = Append(generatorArgs, ValidacaoFinal(r.habilidades, nivelEscolar))
    /\ pc' = "await_generator"

\* the code that runs once engine.query number qi has settled with results array rs:
\* the next iteration, or after the last one the rest of consultarBNCC and the controller
AposQuery(rs) ==
    /\ qi' = qi + 1
    /\ results' = rs
    /\ IF qi + 1 < Len(queries)
       THEN /\ pc' = "query"
            /\ UNCHANGED <<bncc, generatorArgs>>
       ELSE EntregarAoGerador(
                AgregarResultados(rs, body.tema[1], body.disciplina[1], body.serie[1]),
                detectarNivelEscolar(body.serie[1]))
    /\ UNCHANGED <<call, queryEngine, indexLoads, engineAssigns, caller, body, queries,
                   retrieverCalls, responses>>

NodesRecebidos == Len(FlatMap(results))

\* engine.query resolves with sourceNodes = nodes
QueryOk(nodes) ==
    /\ pc = "query"
    /\ NodesRecebidos + Len(nodes) <= MaxNodes
    /\ outcomes' = Append(outcomes, [ok |-> TRUE, nodes |-> nodes])
    /\ AposQuery(Append(results, nodes))

\* variant: engine.query is not wrapped in try/catch, its exception rejects consultarBNCC
QueryFalhou_semCatch ==
    /\ pc = "query"
    /\ outcomes' = Append(outcomes, [ok |-> FALSE, nodes |-> << >>])
    /\ bncc' = [bncc EXCEPT !.status = "rejeitou"]
    /\ responses' = Append(responses, 500)
    /\ pc' = "done"
    /\ UNCHANGED <<call, queryEngine, indexLoads, engineAssigns, caller, body, queries, qi,
                   results, generatorArgs, retrieverCalls>>

\* engine.query throws: the catch logs and the loop goes on
QueryFalhou ==
    /\ pc = "query"
    /\ outcomes' = Append(outcomes, [ok |-> FALSE, nodes |-> << >>])
    /\ AposQuery(results)

\* gerarContextoPedagogico resolves: the controller answers 200
GeradorOk ==
    /\ pc = "await_generator"
    /\ responses' = Append(responses, 200)
    /\ pc' = "done"
    /\ UNCHANGED <<call, queryEngine, indexLoads, engineAssigns, caller, body, queries, qi,
                   outcomes, results, bncc, generatorArgs, retrieverCalls>>

\* variant: the exception of gerarContextoPedagogico is not caught, nothing is answered
GeradorFalhou_semCatch ==
    /\ pc = "await_generator"
    /\ pc' = "done"
    /\ UNCHANGED <<call, queryEngine, indexLoads, engineAssigns, caller, body, queries, qi,
                   outcomes, results, bncc, generatorArgs, retrieverCalls, responses>>

\* gerarContextoPedagogico throws (the completion call or JSON.parse): the catch answers 500
GeradorFalhou ==
    /\ pc = "await_generator"
    /\ responses' = Append(responses, 500)
    /\ pc' = "done"
    /\ UNCHANGED <<call, queryEngine, indexLoads, engineAssigns, caller, body, queries, qi,
                   outcomes, results, bncc, generatorArgs, retrieverCalls>>

\* the request is over; the process goes on to the next one with its module state kept
NovaRequisicao ==
    /\ pc = "done"
    /\ pc' = "idle"
    /\ body' = [tema |-> None, disciplina |-> None, serie |-> None]
    /\ queries' = << >>
    /\ qi' = 0
    /\ outcomes' = << >>
    /\ results' = << >>
    /\ bncc' = SemResultado
    /\ generatorArgs' = << >>
    /\ retrieverCalls' = 0
    /\ responses' = << >>
    /\ UNCHANGED <<call, queryEngine, indexLoads, engineAssigns, caller>>

Next ==
    \/ \E b \in Bodies : ReceberRequisicao(b)
    \/ NovaRequisicao
    \/ IndexCarregado
    \/ IndexFalhou
    \/ PlanejarConsulta
    \/ \E nodes \in RagNodeLists : QueryOk(nodes)
    \/ QueryFalhou
    \/ GeradorOk
    \/ GeradorFalhou

Spec == Init /\ [][Next]_vars

\* engine.query number qi + 1 settles and the loop goes on: the step QueryOk or QueryFalhou
\* takes, as it shows in pc and qi
QueryTermina ==
    /\ pc = "query"
    /\ qi' = qi + 1
    /\ pc' \in {"query", "await_generator"}

\* Spec with every awaited call settling: getIndex, each engine.query and
\* gerarContextoPedagogico return or throw, and the code after the await runs
SpecJusta ==
    /\ Spec
    /\ WF_vars(IndexCarregado \/ IndexFalhou)
    /\ WF_vars(PlanejarConsulta)
    /\ WF_<<pc, qi>>(QueryTermina)
    /\ WF_vars(GeradorOk \/ GeradorFalhou)

-----------------------------------------------------------------------------
(* services/rag.service: initializeQueryEngine called by concurrent         *)
(* requests.  A caller runs from its call to the await of getIndex in one  *)
(* step and from the resolution of getIndex to its return in another.      *)

\* if (!queryEngine) { const index = await getIndex(); ... } return queryEngine
ChamarInitialize(c) ==
    /\ caller[c].pc = "idle"
    /\ IF queryEngine = 0
       THEN /\ indexLoads' = indexLoads + 1
            /\ caller' = [caller EXCEPT ![c] = [pc |-> "awaiting", load |-> indexLoads + 1, got |-> 0]]
       ELSE /\ indexLoads' = indexLoads
            /\ caller' = [caller EXCEPT ![c] = [pc |-> "returned", load |-> 0, got |-> queryEngine]]
    /\ UNCHANGED <<call, queryEngine, engineAssigns, pc, body, queries, qi, outcomes, results,
                   bncc, generatorArgs, retrieverCalls, responses>>

\* getIndex resolves for caller c: queryEngine = { index, query }; return queryEngine
ConcluirInitialize(c) ==
    /\ caller[c].pc = "awaiting"
    /\ queryEngine' = caller[c].load
    /\ engineAssigns' = engineAssigns + 1
    /\ caller' = [caller EXCEPT ![c] = [pc |-> "returned", load |-> caller[c].load,
                                        got |-> caller[c].load]]
    /\ UNCHANGED <<call, indexLoads, pc, body, queries, qi, outcomes, results, bncc,
                   generatorArgs, retrieverCalls, responses>>

\* getIndex throws for caller c: initializeQueryEngine rejects, the cache stays as it is
FalharInitialize(c) ==
    /\ caller[c].pc = "awaiting"
    /\ caller' = [caller EXCEPT ![c] = [pc |-> "failed", load |-> caller[c].load, got |-> 0]]
    /\ UNCHANGED <<call, queryEngine, indexLoads, engineAssigns, pc, body, queries, qi, outcomes,
                   results, bncc, generatorArgs, retrieverCalls, responses>>

NextInit ==
    \/ \E c \in Callers : ChamarInitialize(c)
    \/ \E c \in Callers : ConcluirInitialize(c)
    \/ \E c \in Callers : FalharInitialize(c)

SpecInit == Init /\ [][NextInit]_vars

-----------------------------------------------------------------------------
(* Direct calls of the pure functions of utils/validators and utils/filters *)

\* bound on the number of tokens of a grade label
MaxGradeTokens == 5

\* bound on the number of fragments of a label tried for the stage word
MaxStageTokens == 3

\* bound on the expected grades tried
MaxAno == 10

\* bound on the length of a node list passed to the filters
MaxListLen == 3

RECURSIVE Concats(_, _)
Concats(tokens, n) ==
    IF n = 0 THEN {<< >>}
    ELSE LET prev == Concats(tokens, n - 1)
         IN  prev \cup {p \o t : p \in prev, t \in tokens}

GradeTokens ==
    {<<"0">>, <<"1">>, <<"2">>, <<"o_">>, <<" ">>, <<"a", "n", "o">>,
     <<"S", "e'", "r", "i", "e">>, <<"x">>}

GradeLabels == Concats(GradeTokens, MaxGradeTokens)

StageTokens ==
    {<<"s">>, <<"S">>, <<"s", "e">>, <<"S", "E">>, <<"e'">>, <<"E'">>,
     <<"r", "i", "e">>, <<"R", "I", "E">>, <<"R", "i", "e">>, <<"x">>, <<"1">>}

StageLabels == Concats(StageTokens, MaxStageTokens)

\* EF codes with every pair of grade digits, two EM codes and a string that is no code
AnoCodes ==
    {<<"E", "F", DigitChars[a + 1], DigitChars[b + 1], "M", "A", "0", "1">> : a \in 0..9, b \in 0..9}
    \cup {<<"E", "M", "1", "3", "M", "A", "T", "1", "0", "1">>,
          <<"E", "M", "1", "3", "C", "H", "S", "1", "0">>,
          <<"E", "F", "x">>}

Anos == {None} \cup {Some(g) : g \in 0..MaxAno}

\* passages for the direct calls: a repeated code with descriptions of different lengths,
\* two codes on one line, a description that is too short, a text without codes,
\* repeated, absent and zero page numbers
FnNodes ==
    { [text |-> <<"E", "F", "0", "9", "H", "I", "0", "1", " ", "g", "u", "e", "r", "r", "a", " ",
                  "f", "r", "i", "a", " ", "n", "o", " ", "m", "u", "n", "d", "o">>,
       score |-> 50, page |-> Some(1)],
      [text |-> <<"E", "F", "0", "9", "H", "I", "0", "1", ":", " ", "g", "u", "e", "r", "r", "a",
                  " ", "f", "r", "i", "a", " ", "n", "o", " ", "m", "u", "n", "d", "o", " ", "b",
                  "i", "p", "o", "l", "a", "r", "\n", "E", "M", "1", "3", "C", "H", "S", "1", "0",
                  "1", " ", "a", "n", "a", "l", "i", "s", "a", "r", " ", "a", " ", "g", "u", "e",
                  "r", "r", "a", " ", "f", "r", "i", "a">>,
       score |-> 45, page |-> Some(1)],
      [text |-> <<"E", "M", "1", "3", "C", "H", "S", "1", "0", "1", " ", "-", " ", "c", "u", "r",
                  "t", "o", " ", "E", "F", "0", "5", "M", "A", "0", "2", " ", "r", "e", "s", "o",
                  "l", "v", "e", "r", " ", "p", "r", "o", "b", "l", "e", "m", "a", "s">>,
       score |-> 40, page |-> Some(2)],
      [text |-> <<"t", "e", "x", "t", "o", " ", "s", "e", "m", " ", "c", "o", "d", "i", "g", "o",
                  " ", "d", "o", " ", "e", "n", "s", "i", "n", "o", " ", "m", "e", "d", "i", "o">>,
       score |-> 35, page |-> None],
      [text |-> <<"E", "F", "6", "9", "L", "P", "0", "1", " ", "d", "i", "f", "e", "r", "e", "n",
                  "c", "i", "a", "r", " ", "l", "i", "b", "e", "r", "d", "a", "d", "e">>,
       score |-> 30, page |-> Some(0)] }

FnNodeLists == SeqsUpTo(FnNodes, MaxListLen)

\* bound on the number of characters by which a description exceeds the limit of 200
MaxExcesso == 2

\* lists of one long passage: a code followed by a description of LIMITE_DESCRICAO - 1 to
\* LIMITE_DESCRICAO + MaxExcesso characters, and a passage of LIMITE_HABILIDADES + 1 lines,
\* each with its own code and a description
FnNodesExtensos ==
    LET descricao(n) == [i \in 1..n |-> "a"]
        linha(k) == <<"E", "F", "0", "1", "M", "A", DigitChars[(k \div 10) + 1],
                      DigitChars[(k % 10) + 1], " ">> \o descricao(MINIMO_DESCRICAO + 1) \o <<"\n">>
    IN  {<<[text |-> <<"E", "F", "0", "5", "M", "A", "0", "2", " ">> \o descricao(n),
            score |-> 50, page |-> Some(1)]>> :
            n \in (LIMITE_DESCRICAO - 1)..(LIMITE_DESCRICAO + MaxExcesso)}
        \cup {<<[text |-> FlatMap([k \in 1..(LIMITE_HABILIDADES + 1) |-> linha(k)]),
                 score |-> 50, page |-> Some(1)]>>}

\* lists of two passages that give one code two different descriptions of the same
\* length, in both orders
FnNodesEmpate ==
    LET mundo == [text |-> <<"E", "F", "0", "9", "H", "I", "0", "1", " ", "g", "u", "e", "r", "r", "a", " ", "f", "r", "i", "a", " ", "n", "o", " ", "m", "u", "n", "d", "o">>, score |-> 50, page |-> Some(1)]
        leste == [text |-> <<"E", "F", "0", "9", "H", "I", "0", "1", " ", "g", "u", "e", "r", "r", "a", " ", "f",
                          "r", "i", "a", " ", "n", "o", " ", "l", "e", "s", "t", "e">>, score |-> 50, page |-> Some(3)]
    IN  {<<mundo, leste>>, <<leste, mundo>>}

\* a list whose first passage names a code with a description that is too short, then
\* another code, and whose second passage gives the first code a description
FnNodesDescricaoCurta ==
    {<<[text |-> <<"E", "F", "0", "9", "H", "I", "0", "1", " ", "-", " ", "c", "u", "r", "t", "o", " ", "E", "F",
                "0", "5", "M", "A", "0", "2", " ", "r", "e", "s", "o", "l", "v", "e", "r", " ",
                "p", "r", "o", "b", "l", "e", "m", "a", "s">>,
        score |-> 50, page |-> Some(2)],
       [text |-> <<"E", "F", "0", "9", "H", "I", "0", "1", " ", "g", "u", "e", "r", "r", "a", " ", "f", "r", "i",
                "a", " ", "n", "o", " ", "m", "u", "n", "d", "o">>,
        score |-> 45, page |-> Some(1)]>>}

FnAreas == {<< >>, <<"H", "I">>, <<"C", "H", "S">>}

FnAnos == {None, Some(0), Some(5), Some(9)}

\* a direct call made from the initial state, recorded with its arguments and result
Returned(fn, args, ret) ==
    /\ call' = [fn |-> fn, args |-> args, ret |-> ret]
    /\ UNCHANGED <<queryEngine, indexLoads, engineAssigns, caller, pc, body, queries, qi,
                   outcomes, results, bncc, generatorArgs, retrieverCalls, responses>>

CallDetectarNivelEscolar ==
    /\ call = NoCall
    /\ \E serie \in StageLabels :
          Returned("detectarNivelEscolar", <<serie>>, detectarNivelEscolar(serie))

CallExtrairNumeroAno ==
    /\ call = NoCall
    /\ \E serie \in GradeLabels :
          Returned("extrairNumeroAno", <<serie>>, extrairNumeroAno(serie))

CallValidarHabilidadeAno ==
    /\ call = NoCall
    /\ \E codigo \in AnoCodes, anoEsperado \in Anos :
          Returned("validarHabilidadeAno", <<codigo, anoEsperado>>,
                   validarHabilidadeAno(codigo, anoEsperado))

CallRemoverNodesDuplicados ==
    /\ call = NoCall
    /\ \E nodes \in FnNodeLists, maxNodes \in 0..(MaxListLen + 1) :
          Returned("removerNodesDuplicados", <<nodes, maxNodes>>,
                   removerNodesDuplicados(nodes, maxNodes))

CallExtrairHabilidadesBNCC ==
    /\ call = NoCall
    /\ \E nodes \in FnNodeLists \cup FnNodesExtensos \cup FnNodesEmpate \cup FnNodesDescricaoCurta,
          nivelEscolar \in {"medio", "fundamental"},
          areaBNCC \in FnAreas, anoEsperado \in FnAnos :
          Returned("extrairHabilidadesBNCC", <<nodes, nivelEscolar, areaBNCC, anoEsperado>>,
                   extrairHabilidadesBNCC(nodes, nivelEscolar, areaBNCC, anoEsperado))

CallExtrairAnoDaHabilidadeTS ==
    /\ call = NoCall
    /\ \E codigo \in AnoCodes :
          Returned("extrairAnoDaHabilidadeTS", <<codigo>>, extrairAnoDaHabilidadeTS(codigo))

CallValidarHabilidadeAnoTS ==
    /\ call = NoCall
    /\ \E codigo \in AnoCodes, anoEsperado \in Anos :
          Returned("validarHabilidadeAnoTS", <<codigo, anoEsperado>>,
                   validarHabilidadeAnoTS(codigo, anoEsperado))

\* the area letters of the fundamental and of the medio codes, and letters of no area
FnLetras2 ==
    {<<"H", "I">>, <<"G", "E">>, <<"L", "P">>, <<"A", "R">>, <<"E", "F">>, <<"L", "I">>,
     <<"M", "A">>, <<"C", "I">>, <<"X", "X">>}

FnLetras3 == {<<"C", "H", "S">>, <<"L", "G", "G">>, <<"M", "A", "T">>, <<"C", "N", "T">>}

\* EF and EM codes with area letters of 2 and of 3 letters, and strings that are no codes:
\* lower case, a trailing space, a leading character, one grade digit, no digits at the end
AreaCodes ==
    {<<"E", "F", "0", "9">> \o a \o <<"0", "1">> : a \in FnLetras2 \cup FnLetras3}
    \cup {<<"E", "M", "1", "3">> \o a \o <<"1", "0", "1">> : a \in FnLetras2 \cup FnLetras3}
    \cup {<<"e", "f", "0", "9", "h", "i", "0", "1">>,
          <<"E", "F", "0", "9", "H", "I", "0", "1", " ">>,
          <<"x", "E", "F", "0", "9", "H", "I", "0", "1">>,
          <<"E", "F", "9", "H", "I", "0", "1">>,
          <<"E", "M", "1", "3", "C", "H", "S">>,
          << >>}

CallValidarHabilidadeArea ==
    /\ call = NoCall
    /\ \E codigo \in AreaCodes, areaEsperada \in {<< >>} \cup FnLetras2 \cup FnLetras3 :
          Returned("validarHabilidadeArea", <<codigo, areaEsperada>>,
                   validarHabilidadeArea(codigo, areaEsperada))

\* the spelling of s without accents and cedilla
SemAcentos(s) ==
    LET base(c) == CASE c \in {"a'", "a~"} -> "a"
                     [] c \in {"e'", "e^"} -> "e"
                     [] c = "i'" -> "i"
                     [] c = "o'" -> "o"
                     [] c = "c," -> "c"
                     [] c \in {"A'", "A~"} -> "A"
                     [] c \in {"E'", "E^"} -> "E"
                     [] c = "I'" -> "I"
                     [] c = "O'" -> "O"
                     [] c = "C," -> "C"
                     [] OTHER -> c
    IN  [i \in 1..Len(s) |-> base(s[i])]

\* s with its first letter in upper case
Capitalizar(s) == IF Len(s) = 0 THEN s ELSE <<ToUpperChar(s[1])>> \o Tail(s)

\* the subject names of the two tables, with and without accents
NomesDasTabelas ==
    LET chaves == {MAPEAMENTO_MEDIO[i][1] : i \in 1..Len(MAPEAMENTO_MEDIO)}
                  \cup {MAPEAMENTO_FUNDAMENTAL[i][1] : i \in 1..Len(MAPEAMENTO_FUNDAMENTAL)}
    IN  chaves \cup {SemAcentos(k) : k \in chaves}

\* the subject names as a request can spell them: lower case, upper case, capitalised
FnDisciplinas ==
    NomesDasTabelas \cup {ToUpperCase(d) : d \in NomesDasTabelas}
                    \cup {Capitalizar(d) : d \in NomesDasTabelas}

CallDetectarAreaBNCC ==
    /\ call = NoCall
    /\ \E disciplina \in FnDisciplinas, nivelEscolar \in {"medio", "fundamental", ""} :
          Returned("detectarAreaBNCC", <<disciplina, nivelEscolar>>,
                   detectarAreaBNCC(disciplina, nivelEscolar))

\* passages for the direct calls of filtrarNodesPorRelevancia: one EF code with the topic,
\* two texts without a code that name the fundamental stage twice and once, the same EM
\* passage with the similarities 0.40 and -0.40 and once more on another page, and a text
\* that earns no boost and no penalty
FiltroNodes ==
    {
      [text |-> <<"E", "F", "0", "9", "H", "I", "0", "1", " ", "g", "u", "e",
                   "r", "r", "a", " ", "f", "r", "i", "a", " ", "n", "o", " ",
                   "m", "u", "n", "d", "o">>,
       score |-> 50, page |-> Some(1)],
      [text |-> <<"g", "u", "e", "r", "r", "a", " ", "f", "r", "i", "a", " ",
                   "n", "o", " ", "e", "n", "s", "i", "n", "o", " ", "f", "u",
                   "n", "d", "a", "m", "e", "n", "t", "a", "l", " ", "a", "n",
                   "o", "s", " ", "f", "i", "n", "a", "i", "s">>,
       score |-> 45, page |-> Some(2)],
      [text |-> <<"g", "u", "e", "r", "r", "a", " ", "f", "r", "i", "a", " ",
                   "n", "o", "s", " ", "a", "n", "o", "s", " ", "f", "i", "n",
                   "a", "i", "s">>,
       score |-> 45, page |-> Some(3)],
      [text |-> <<"E", "M", "1", "3", "C", "H", "S", "1", "0", "1", " ", "a",
                   "n", "a", "l", "i", "s", "a", "r", " ", "a", " ", "g", "u",
                   "e", "r", "r", "a", " ", "f", "r", "i", "a">>,
       score |-> 40, page |-> Some(4)],
      [text |-> <<"E", "M", "1", "3", "C", "H", "S", "1", "0", "1", " ", "a",
                   "n", "a", "l", "i", "s", "a", "r", " ", "a", " ", "g", "u",
                   "e", "r", "r", "a", " ", "f", "r", "i", "a">>,
       score |-> -40, page |-> Some(5)],
      [text |-> <<"E", "M", "1", "3", "C", "H", "S", "1", "0", "1", " ", "a",
                   "n", "a", "l", "i", "s", "a", "r", " ", "a", " ", "g", "u",
                   "e", "r", "r", "a", " ", "f", "r", "i", "a">>,
       score |-> 40, page |-> Some(6)],
      [text |-> <<"t", "e", "x", "t", "o", " ", "s", "e", "m", " ", "r", "e",
                   "l", "a", "c", "a", "o">>,
       score |-> 10, page |-> Some(7)] }

\* lists of one passage: a code of the right level with one phrase of the other level
\* (medio, fundamental), a fundamental code of another grade, and codes of another area
FiltroNodesDeUmCodigo ==
    {<<[text |-> <<"E", "M", "1", "3", "C", "H", "S", "1", "0", "1", " ", "g", "u", "e", "r", "r", "a", " ",
                 "f", "r", "i", "a", " ", "n", "o", "s", " ", "a", "n", "o", "s", " ", "f",
                 "i", "n", "a", "i", "s">>,
        score |-> 50, page |-> Some(1)]>>,
     <<[text |-> <<"E", "F", "0", "9", "H", "I", "0", "1", " ", "g", "u", "e", "r", "r", "a", " ", "f", "r",
                 "i", "a", " ", "n", "o", " ", "e", "n", "s", "i", "n", "o", " ", "m", "e",
                 "d", "i", "o">>,
        score |-> 50, page |-> Some(2)]>>,
     <<[text |-> <<"E", "F", "0", "5", "H", "I", "0", "1", " ", "g", "u", "e", "r", "r", "a", " ", "f", "r",
                 "i", "a">>,
        score |-> 50, page |-> Some(3)]>>,
     <<[text |-> <<"E", "F", "0", "9", "M", "A", "0", "1", " ", "g", "u", "e", "r", "r", "a", " ", "f", "r",
                 "i", "a">>,
        score |-> 50, page |-> Some(4)]>>,
     <<[text |-> <<"E", "M", "1", "3", "M", "A", "T", "1", "0", "1", " ", "g", "u", "e", "r", "r", "a", " ",
                 "f", "r", "i", "a">>,
        score |-> 50, page |-> Some(5)]>>}

CallFiltrarNodesPorRelevancia ==
    /\ call = NoCall
    /\ \E nodes \in SeqsUpTo(FiltroNodes, MaxListLen) \cup FiltroNodesDeUmCodigo,
          serie \in {SERIE_2_SERIE, SERIE_9_ANO} :
          Returned("filtrarNodesPorRelevancia",
                   <<nodes, TEMA_GUERRA_FRIA, DISC_HISTORIA, serie,
                     detectarAreaBNCC(DISC_HISTORIA, detectarNivelEscolar(serie))>>,
                   filtrarNodesPorRelevancia(nodes, TEMA_GUERRA_FRIA, DISC_HISTORIA, serie,
                       detectarAreaBNCC(DISC_HISTORIA, detectarNivelEscolar(serie))))

\* two runs in one process, one after the other: the second finds what the first left
ExecutarPipeline ==
    /\ call.fn \in {"none", "pipeline"}
    /\ Len(call.ret) < 2
    /\ \E nodes \in RagNodeLists, serie \in {SERIE_9_ANO, SERIE_2_SERIE} :
          Returned("pipeline", Append(call.args, <<nodes, serie>>),
                   Append(call.ret,
                          ExecutarDepoisDe(
                              IF Len(call.ret) = 0
                              THEN [uniqueNodes |-> << >>, seenPages |-> {}, habilidades |-> << >>,
                                    lastIndex |-> 0]
                              ELSE call.ret[Len(call.ret)].deixado,
                              nodes, TEMA_GUERRA_FRIA, DISC_HISTORIA, serie,
                              detectarAreaBNCC(DISC_HISTORIA, detectarNivelEscolar(serie)))))

NextFn ==
    \/ CallDetectarNivelEscolar
    \/ CallExtrairNumeroAno
    \/ CallValidarHabilidadeAno
    \/ CallRemoverNodesDuplicados
    \/ CallExtrairHabilidadesBNCC
    \/ CallFiltrarNodesPorRelevancia
    \/ CallDetectarAreaBNCC
    \/ CallValidarHabilidadeArea
    \/ CallExtrairAnoDaHabilidadeTS
    \/ CallValidarHabilidadeAnoTS
    \/ ExecutarPipeline

SpecFn == Init /\ [][NextFn]_vars

-----------------------------------------------------------------------------
(* Properties                                                              *)

Prefixo(codigo) == SubSeq(codigo, 1, 2)

\* C1: every skill passed to gerarContextoPedagogico has a code that starts with EM when
\* detectarNivelEscolar(serie) is "medio" and with EF otherwise, whatever the retriever returned.
C1_HabilidadesDoNivelPedido ==
    \A k \in 1..Len(generatorArgs) : \A j \in 1..Len(generatorArgs[k]) :
        Prefixo(generatorArgs[k][j].codigo) =
            (IF detectarNivelEscolar(body.serie[1]) = "medio" THEN <<"E", "M">> ELSE <<"E", "F">>)

\* a medio request whose retriever returned a passage with an EF code and one with an EM code,
\* and whose generator received a non-empty skill list
C1_Witness ==
    /\ pc = "await_generator"
    /\ detectarNivelEscolar(body.serie[1]) = "medio"
    /\ \E k \in 1..Len(bncc.allNodes) : Includes(bncc.allNodes[k].text, <<"E", "F", "0", "9">>)
    /\ Len(generatorArgs) = 1
    /\ Len(generatorArgs[1]) > 0

\* C2: the list returned by extrairHabilidadesBNCC never holds two records with the same code.
C2_CodigosDistintos ==
    call.fn = "extrairHabilidadesBNCC" =>
        \A i \in 1..Len(call.ret) : \A j \in 1..Len(call.ret) :
            call.ret[i].codigo = call.ret[j].codigo => i = j

\* a call whose passages hold the same code twice, with that code in the result
C2_Witness ==
    /\ call.fn = "extrairHabilidadesBNCC"
    /\ Len(call.args[1]) >= 2
    /\ Cardinality({k \in 1..Len(call.args[1]) :
                       Includes(call.args[1][k].text, <<"E", "F", "0", "9", "H", "I", "0", "1">>)}) >= 2
    /\ \E i \in 1..Len(call.ret) : call.ret[i].codigo = <<"E", "F", "0", "9", "H", "I", "0", "1">>

\* C3: the list returned by removerNodesDuplicados has no two passages with the same
\* page_number and at most maxNodes elements.
C3_PaginasDistintasELimite ==
    call.fn = "removerNodesDuplicados" =>
        /\ Len(call.ret) <= call.args[2]
        /\ \A i \in 1..Len(call.ret) : \A j \in 1..Len(call.ret) :
              call.ret[i].page = call.ret[j].page => i = j

\* a call with a repeated page and more distinct pages than maxNodes, answered with maxNodes nodes
C3_Witness ==
    /\ call.fn = "removerNodesDuplicados"
    /\ call.args[2] = 1
    /\ Len(call.ret) = 1
    /\ \E i, j \in 1..Len(call.args[1]) : i < j /\ call.args[1][i].page = call.args[1][j].page
                                          /\ call.args[1][i].page = Some(1)
    /\ \E i \in 1..Len(call.args[1]) : call.args[1][i].page = Some(2)

\* C4: the queryEngine cache is initialised at most once per process, under any interleaving
\* of the requests that call initializeQueryEngine.
C4_InicializadoUmaVez == engineAssigns <= 1

\* two callers that both found the cache empty, both loaded the index and both assigned it
C4_Witness ==
    \E c, d \in Callers :
        /\ c # d
        /\ caller[c].pc = "returned" /\ caller[d].pc = "returned"
        /\ caller[c].got # caller[d].got
        /\ indexLoads >= 2
        /\ engineAssigns >= 2

\* consultarBNCC has left its query loop
ConsultaTerminada == Len(queries) > 0 /\ Len(outcomes) = Len(queries)

TodasFalharam == \A k \in 1..Len(outcomes) : ~outcomes[k].ok

\* C5: consultarBNCC rejects exactly when all its planned queries fail: it returns a result
\* when at least one engine.query succeeded and rejects when every engine.query threw.
C5_FalhaSeTodasFalham ==
    ConsultaTerminada => (bncc.status = "rejeitou" <=> TodasFalharam)

\* every planned query threw, and consultarBNCC returned a result that reached the generator
C5_Witness ==
    /\ ConsultaTerminada
    /\ TodasFalharam
    /\ bncc.status = "retornou"
    /\ pc = "await_generator"
    /\ generatorArgs = << << >> >>

\* the passages of the successful queries, in query order
RECURSIVE ConcatOk(_)
ConcatOk(os) ==
    IF Len(os) = 0 THEN << >>
    ELSE ConcatOk(SubSeq(os, 1, Len(os) - 1))
         \o (IF os[Len(os)].ok THEN os[Len(os)].nodes ELSE << >>)

\* C6: once a request has left the query loop every planned query has been executed, also
\* after one of them threw, and the aggregated passage list is the concatenation, in query
\* order, of the passages of the queries that succeeded.
C6_FalhaIsolada ==
    (pc \in {"await_generator", "done"} /\ Len(outcomes) > 0) =>
        /\ Len(outcomes) = Len(queries)
        /\ bncc.status = "retornou"
        /\ bncc.allNodes = ConcatOk(outcomes)

\* a failed query between two successful queries that returned passages
C6_Witness ==
    /\ pc = "await_generator"
    /\ \E i, j, k \in 1..Len(outcomes) :
          /\ i < j /\ j < k
          /\ outcomes[i].ok /\ outcomes[i].nodes # << >>
          /\ ~outcomes[j].ok
          /\ outcomes[k].ok /\ outcomes[k].nodes # << >>
          /\ outcomes[i].nodes # outcomes[k].nodes

\* a request field that is missing, empty or made of whitespace only
Vazio(campo) == campo = None \/ \A k \in 1..Len(campo[1]) : campo[1][k] \in {" ", "\t", "\n", "\r"}

\* C7: a request whose tema, disciplina or serie is missing, empty or whitespace-only is
\* answered with status 400, and neither consultarBNCC nor gerarContextoPedagogico is invoked.
C7_CampoObrigatorio ==
    (pc # "idle" /\ (Vazio(body.tema) \/ Vazio(body.disciplina) \/ Vazio(body.serie))) =>
        /\ responses = <<400>>
        /\ retrieverCalls = 0
        /\ generatorArgs = << >>
        /\ bncc.status = "pendente"

\* a request with a whitespace-only serie and the other fields given, answered 400
C7_Witness ==
    /\ pc = "done"
    /\ body.tema = Some(TEMA_GUERRA_FRIA)
    /\ body.disciplina = Some(DISC_HISTORIA)
    /\ body.serie = Some(<<" ", " ">>)
    /\ responses = <<400>>

\* C8: validarHabilidadeAno with an expected grade g accepts an EF code with digits 0d iff
\* |d - g| <= 1 and an EF code with digits lo hi, lo # 0, iff lo <= g <= hi; it accepts every
\* EM code, and an absent expected grade accepts every code.
C8_AnoDaHabilidade ==
    call.fn = "validarHabilidadeAno" =>
        LET codigo == call.args[1]
            ano == call.args[2]
            ehEF == Len(codigo) = 8 /\ Prefixo(codigo) = <<"E", "F">>
            lo == PosIn(codigo[3], DigitChars) - 1
            hi == PosIn(codigo[4], DigitChars) - 1
        IN  /\ ano = None => call.ret = TRUE
            /\ Prefixo(codigo) = <<"E", "M">> => call.ret = TRUE
            /\ (ano # None /\ ehEF /\ lo = 0) =>
                  (call.ret <=> (hi - ano[1] \in {-1, 0, 1}))
            /\ (ano # None /\ ehEF /\ lo # 0) =>
                  (call.ret <=> (lo <= ano[1] /\ ano[1] <= hi))

\* the range digits 69 evaluated against grade 5 are rejected
C8_Witness ==
    /\ call.fn = "validarHabilidadeAno"
    /\ call.args = << <<"E", "F", "6", "9", "M", "A", "0", "1">>, Some(5) >>
    /\ call.ret = FALSE

\* C9: extrairNumeroAno returns absent or an integer in 1..9; a number outside 1..9 in the
\* label is never returned, also when a grade word follows it.
C9_AnoEntreUmENove ==
    call.fn = "extrairNumeroAno" =>
        (call.ret = None \/ (call.ret[1] >= 1 /\ call.ret[1] <= 9))

\* the label "12o ano" (with the ordinal sign) answered with 12
C9_Witness ==
    /\ call.fn = "extrairNumeroAno"
    /\ call.args = << <<"1", "2", "o_", " ", "a", "n", "o">> >>
    /\ call.ret = Some(12)

\* the stage word at position i of a label: s, e or e-acute, r, i, e in either case
PalavraSerieEm(label, i) ==
    /\ i + 4 <= Len(label)
    /\ label[i] \in {"s", "S"}
    /\ label[i + 1] \in {"e", "E", "e'", "E'"}
    /\ label[i + 2] \in {"r", "R"}
    /\ label[i + 3] \in {"i", "I"}
    /\ label[i + 4] \in {"e", "E"}

\* C10: detectarNivelEscolar returns "medio" for every label that contains the stage word in
\* any case, with or without its accent, and "fundamental" for every other label.
C10_NivelPelaPalavraSerie ==
    call.fn = "detectarNivelEscolar" =>
        call.ret = (IF \E i \in 1..Len(call.args[1]) : PalavraSerieEm(call.args[1], i)
                    THEN "medio" ELSE "fundamental")

\* a mixed-case spelling with the accented vowel in upper case is classified as medio
C10_Witness ==
    /\ call.fn = "detectarNivelEscolar"
    /\ call.args = << <<"s", "E'", "R", "i", "e">> >>
    /\ call.ret = "medio"

\* C11: every code returned by extrairHabilidadesBNCC passes validarHabilidadeNivel, passes
\* validarHabilidadeArea when the area is not absent, and passes validarHabilidadeAno whenever
\* the expected grade is a number (0 included) rather than absent.
C11_TodasAsRestricoes ==
    call.fn = "extrairHabilidadesBNCC" =>
        \A i \in 1..Len(call.ret) :
            /\ validarHabilidadeNivel(call.ret[i].codigo, call.args[2])
            /\ call.args[3] # << >> => validarHabilidadeArea(call.ret[i].codigo, call.args[3])
            /\ call.args[4] # None => validarHabilidadeAno(call.ret[i].codigo, call.args[4])

\* a fundamental call with the expected grade 0 that returned a code of the 9th grade
C11_Witness ==
    /\ call.fn = "extrairHabilidadesBNCC"
    /\ call.args[2] = "fundamental"
    /\ call.args[4] = Some(0)
    /\ \E i \in 1..Len(call.ret) :
          /\ call.ret[i].codigo = <<"E", "F", "0", "9", "H", "I", "0", "1">>
          /\ ~validarHabilidadeAno(call.ret[i].codigo, call.args[4])

\* C12: every description returned by extrairHabilidadesBNCC has at most 200 characters,
\* the truncated ones with their ellipsis included.
C12_DescricaoAte200 ==
    call.fn = "extrairHabilidadesBNCC" =>
        \A i \in 1..Len(call.ret) : Len(call.ret[i].descricao) <= 200

\* a passage whose description has 201 characters, returned cut and ending with "..."
C12_Witness ==
    /\ call.fn = "extrairHabilidadesBNCC"
    /\ Len(call.args[1]) = 1
    /\ Len(call.args[1][1].text) = 9 + 201
    /\ Len(call.ret) = 1
    /\ Len(call.ret[1].descricao) > 200
    /\ SubSeq(call.ret[1].descricao, 201, Len(call.ret[1].descricao)) = <<".", ".", ".">>

\* the boost and the penalty constants of PONTUACAO
Boosts ==
    {BOOST_HABILIDADE_NIVEL_CORRETO, BOOST_HABILIDADE_AREA_CORRETA, BOOST_HABILIDADE_ANO_CORRETO,
     BOOST_MENCIONOU_NIVEL_CORRETO, BOOST_DISCIPLINA, BOOST_SERIE, BOOST_TEMA_EXATO,
     BOOST_TEMA_PARCIAL}

OutrasPenalidades ==
    {PENALIDADE_HABILIDADE_AREA_ERRADA, PENALIDADE_HABILIDADE_ANO_ERRADO,
     PENALIDADE_MENCIONOU_NIVEL_ERRADO}

\* the passages of a recorded call of filtrarNodesPorRelevancia as the scorer enriches them
Enriquecidos ==
    EnriquecerNodes(call.args[1], call.args[2], call.args[3], call.args[4], call.args[5],
                    detectarNivelEscolar(call.args[4]), extrairNumeroAno(call.args[4]))

CodigosDoTexto(text) ==
    LET achados == MatchCodes(ToLowerCase(text), TRUE)
    IN  [k \in 1..Len(achados) |-> ToUpperCase(achados[k])]

\* node is one of the passages a recorded call of filtrarNodesPorRelevancia returned
Mantido(node) ==
    \E j \in 1..Len(call.ret) :
        /\ call.ret[j].text = node.text
        /\ call.ret[j].score = node.score
        /\ call.ret[j].page = node.page

C15_SemCodigoNuncaRemovido ==
    call.fn = "filtrarNodesPorRelevancia" =>
        \A k \in 1..Len(call.args[1]) :
            Len(CodigosDoTexto(call.args[1][k].text)) = 0 => Mantido(call.args[1][k])

\* a medio call with a passage without a code that names both 'ensino fundamental' and
\* 'anos finais' and is not in the result
C15_Witness ==
    /\ call.fn = "filtrarNodesPorRelevancia"
    /\ detectarNivelEscolar(call.args[4]) = "medio"
    /\ \E k \in 1..Len(call.args[1]) :
          /\ Len(CodigosDoTexto(call.args[1][k].text)) = 0
          /\ Includes(call.args[1][k].text, STR_ensino_fundamental)
          /\ Includes(call.args[1][k].text, STR_anos_finais)
          /\ ~Mantido(call.args[1][k])

\* the passage an enriched node was made from
NodeDe(e) == [text |-> e.text, score |-> e.score, page |-> e.page]

\* the returned passages with the boostedScore v, in the order of the result, and the
\* passages of the input that were returned with the boostedScore v, in the order of the input
RetornadosCom(v) ==
    LET tem(e) == e.boostedScore = v
        es == SelectSeq(call.ret, tem)
    IN  [k \in 1..Len(es) |-> NodeDe(es[k])]

EntradasCom(v) ==
    LET tem(n) == \E j \in 1..Len(call.ret) : call.ret[j].boostedScore = v /\ NodeDe(call.ret[j]) = n
    IN  SelectSeq(call.args[1], tem)

\* C16: the list returned by filtrarNodesPorRelevancia is ordered by boostedScore
\* non-increasing, and passages with equal boostedScore keep their relative input order.
C16_OrdenadoEEstavel ==
    call.fn = "filtrarNodesPorRelevancia" =>
        /\ \A i, j \in 1..Len(call.ret) :
              i < j => call.ret[i].boostedScore >= call.ret[j].boostedScore
        /\ \A j \in 1..Len(call.ret) :
              RetornadosCom(call.ret[j].boostedScore) = EntradasCom(call.ret[j].boostedScore)

\* a call whose input has a lower-scored passage before two different passages that tie,
\* all three returned, the two that tie first
C16_Witness ==
    /\ call.fn = "filtrarNodesPorRelevancia"
    /\ Len(call.ret) = 3
    /\ call.ret[1].boostedScore = call.ret[2].boostedScore
    /\ call.ret[2].boostedScore > call.ret[3].boostedScore
    /\ NodeDe(call.ret[1]) # NodeDe(call.ret[2])
    /\ NodeDe(call.ret[3]) = call.args[1][1]

\* the ordered passage list and the skill list of one run
ListasDe(r) == <<r.sourceNodes, r.habilidades>>

\* the lists of a run in a process where nothing ran before: the three filters called
\* one on the result of the other
ListasCom(uniqueNodes, serie, areaBNCC) ==
    <<uniqueNodes,
      extrairHabilidadesBNCC(uniqueNodes, detectarNivelEscolar(serie), areaBNCC, extrairNumeroAno(serie))>>

PrimeiraExecucao(args) ==
    ListasCom(removerNodesDuplicados(
                  filtrarNodesPorRelevancia(args[1], TEMA_GUERRA_FRIA, DISC_HISTORIA, args[2],
                      detectarAreaBNCC(DISC_HISTORIA, detectarNivelEscolar(args[2]))),
                  TOP_NODES),
              args[2], detectarAreaBNCC(DISC_HISTORIA, detectarNivelEscolar(args[2])))

C18_ValidacaoFinalNadaRemove ==
    \A k \in 1..Len(generatorArgs) : generatorArgs[k] = bncc.habilidades

\* a request whose retriever returned passages with codes of both levels, whose extractor
\* returned skills, all of them given to the generator
C18_Witness ==
    /\ pc = "await_generator"
    /\ Len(generatorArgs) = 1
    /\ Len(bncc.habilidades) > 0
    /\ generatorArgs[1] = bncc.habilidades
    /\ \E k \in 1..Len(bncc.allNodes) : Includes(bncc.allNodes[k].text, <<"E", "F", "0", "9">>)
    /\ \E k \in 1..Len(bncc.allNodes) : Includes(bncc.allNodes[k].text, <<"E", "M", "1", "3">>)

C20_SimilaridadeAbsoluta ==
    call.fn = "filtrarNodesPorRelevancia" =>
        \A i, j \in 1..Len(call.ret) :
            (/\ call.ret[i].text = call.ret[j].text
             /\ Abs(call.ret[i].score) >= Abs(call.ret[j].score))
            => call.ret[i].boostedScore >= call.ret[j].boostedScore

\* a medio call that returned the same EM passage with the similarities 0.40 and -0.40,
\* the second with a boostedScore 80 lower
C20_Witness ==
    /\ call.fn = "filtrarNodesPorRelevancia"
    /\ Len(call.ret) = 2
    /\ call.ret[1].text = call.ret[2].text
    /\ call.ret[1].score = 40
    /\ call.ret[2].score = -40
    /\ call.ret[1].boostedScore - call.ret[2].boostedScore = 80

\* C21: an empty skill list is not an error: when the extraction of a request yields no
\* skill, consultarBNCC returns, gerarContextoPedagogico is called once with the empty list,
\* and the request is answered 200 unless the generator throws (then 500).
C21_ListaVaziaNaoEhErro ==
    (ConsultaTerminada /\ bncc.habilidades = << >>) =>
        /\ bncc.status = "retornou"
        /\ generatorArgs = << << >> >>
        /\ pc \in {"await_generator", "done"}
        /\ pc = "await_generator" => responses = << >>
        /\ pc = "done" => responses \in {<<200>>, <<500>>}

\* a request whose retriever returned passages, none of which gave a skill, answered 200
C21_Witness ==
    /\ ConsultaTerminada
    /\ bncc.status = "retornou"
    /\ Len(bncc.allNodes) > 0
    /\ bncc.habilidades = << >>
    /\ generatorArgs = << << >> >>
    /\ pc = "done"
    /\ responses = <<200>>

\* the accepted descriptions captured for codigo in one text, in match order
CandidatosDoTexto(texto, codigo) ==
    LET ms == ScanCodes(texto, 1, FALSE)
        ds == [i \in 1..Len(ms) |->
                  [codigo |-> SubSeq(texto, ms[i].index, ms[i].index + ms[i].len - 1),
                   descricao |-> DescricaoDe(texto, ms[i].index, ms[i].len)]]
        aceito(d) == d.codigo = codigo /\ Len(d.descricao) > MINIMO_DESCRICAO
    IN  SelectSeq(ds, aceito)

\* the accepted descriptions captured for codigo across the passages, in capture order
Candidatos(nodes, codigo) ==
    FlatMap([k \in 1..Len(nodes) |-> CandidatosDoTexto(nodes[k].text, codigo)])

\* C22: the description returned for a code is the longest of the accepted descriptions
\* (stripped, cut to the limit, longer than 10 characters) captured for that code in all
\* the passages, and among descriptions of that length the first captured.
C22_DescricaoMaisLonga ==
    call.fn = "extrairHabilidadesBNCC" =>
        \A k \in 1..Len(call.ret) :
            LET cs == Candidatos(call.args[1], call.ret[k].codigo)
            IN  \E i \in 1..Len(cs) :
                    /\ cs[i].descricao = call.ret[k].descricao
                    /\ \A j \in 1..Len(cs) : Len(cs[j].descricao) <= Len(cs[i].descricao)
                    /\ \A j \in 1..(i - 1) : Len(cs[j].descricao) < Len(cs[i].descricao)

\* a code captured first with a shorter and then with a longer description returned with the
\* longer one
C22_Witness ==
    /\ call.fn = "extrairHabilidadesBNCC"
    /\ Len(call.ret) > 0
    /\ LET cs == Candidatos(call.args[1], call.ret[1].codigo)
       IN  /\ Len(cs) = 2
           /\ Len(cs[1].descricao) < Len(cs[2].descricao)
           /\ call.ret[1].descricao = cs[2].descricao

\* every capture of one text (code and description), in match order
CapturasDoTexto(texto) ==
    LET ms == ScanCodes(texto, 1, FALSE)
    IN  [i \in 1..Len(ms) |->
            [codigo |-> SubSeq(texto, ms[i].index, ms[i].index + ms[i].len - 1),
             descricao |-> DescricaoDe(texto, ms[i].index, ms[i].len)]]

\* every capture across the passages, in passage order and then in match order
Capturas(nodes) == FlatMap([k \in 1..Len(nodes) |-> CapturasDoTexto(nodes[k].text)])

Aceita(captura) == Len(captura.descricao) > MINIMO_DESCRICAO

\* the position in cs of the first capture of codigo, of any description or of an accepted one
PrimeiraAparicao(cs, codigo) == SetMin({i \in 1..Len(cs) : cs[i].codigo = codigo})

PrimeiroRegistro(cs, codigo) ==
    SetMin({i \in 1..Len(cs) : cs[i].codigo = codigo /\ Aceita(cs[i])})

\* the codes with an accepted capture that pass the level, area and grade filters of the call
CodigosValidos(cs, args) ==
    {cs[i].codigo : i \in {j \in 1..Len(cs) :
                             Aceita(cs[j]) /\ HabilidadeValida(cs[j].codigo, args[2], args[3], args[4])}}

CodigosRetornados == {call.ret[k].codigo : k \in 1..Len(call.ret)}

\* C23 as stated: the returned records are in the order of the first appearance of their
\* codes in the passage list.
C23_OrdemDaPrimeiraAparicao ==
    call.fn = "extrairHabilidadesBNCC" =>
        LET cs == Capturas(call.args[1])
        IN  \A k, l \in 1..Len(call.ret) :
                k < l => PrimeiraAparicao(cs, call.ret[k].codigo)
                         < PrimeiraAparicao(cs, call.ret[l].codigo)

\* C23 amended: the returned records are in the order of the first accepted capture of their
\* codes (passage order, then position in the passage); they are the valid codes, or when
\* there are more than 15 the 15 with the earliest first accepted capture; a later, longer
\* description does not move a code.
C23_OrdemDoPrimeiroRegistro ==
    call.fn = "extrairHabilidadesBNCC" =>
        LET cs == Capturas(call.args[1])
            validos == CodigosValidos(cs, call.args)
        IN  /\ CodigosRetornados \subseteq validos
            /\ Len(call.ret) = IF Cardinality(validos) < LIMITE_HABILIDADES
                               THEN Cardinality(validos) ELSE LIMITE_HABILIDADES
            /\ \A k, l \in 1..Len(call.ret) :
                   k < l => PrimeiroRegistro(cs, call.ret[k].codigo)
                            < PrimeiroRegistro(cs, call.ret[l].codigo)
            /\ \A c \in validos \ CodigosRetornados : \A d \in CodigosRetornados :
                   PrimeiroRegistro(cs, d) < PrimeiroRegistro(cs, c)

\* EF09HI01 appears first, with a description that is too short, then EF05MA02, then
\* EF09HI01 with a description: EF05MA02 is returned before EF09HI01
C23_Witness ==
    /\ call.fn = "extrairHabilidadesBNCC"
    /\ call.args[1] \in FnNodesDescricaoCurta
    /\ Len(call.ret) = 2
    /\ call.ret[1].codigo = <<"E", "F", "0", "5", "M", "A", "0", "2">>
    /\ call.ret[2].codigo = <<"E", "F", "0", "9", "H", "I", "0", "1">>
    /\ PrimeiraAparicao(Capturas(call.args[1]), call.ret[2].codigo) = 1
    /\ PrimeiroRegistro(Capturas(call.args[1]), call.ret[2].codigo) = 3

\* the passages of nodes that have a page number and are the first of the list with it
PrimeirosDeCadaPagina(nodes) ==
    LET marcados == [i \in 1..Len(nodes) |-> [i |-> i, node |-> nodes[i]]]
        primeiro(e) == /\ e.node.page # None
                       /\ \A j \in 1..(e.i - 1) : nodes[j].page # e.node.page
        escolhidos == SelectSeq(marcados, primeiro)
    IN  [k \in 1..Len(escolhidos) |-> escolhidos[k].node]

\* C24: removerNodesDuplicados returns the subsequence of its input made of the first
\* passage of each distinct page, passages without page_number left out, cut to the first
\* maxNodes distinct pages of the input.
C24_PrimeirasPaginasDistintas ==
    call.fn = "removerNodesDuplicados" =>
        LET primeiros == PrimeirosDeCadaPagina(call.args[1])
            n == IF Len(primeiros) < call.args[2] THEN Len(primeiros) ELSE call.args[2]
        IN  call.ret = SubSeq(primeiros, 1, n)

\* a list whose first passage has page_number 0 and whose second has another page, with
\* room for both: only the second is returned
C24_Witness ==
    /\ call.fn = "removerNodesDuplicados"
    /\ Len(call.args[1]) = 2
    /\ call.args[2] >= 2
    /\ call.args[1][1].page = Some(0)
    /\ call.args[1][2].page = Some(1)
    /\ call.ret = <<call.args[1][2]>>

\* a query that embeds a code prefix: EM13, or EF followed by two digits
ContemPrefixoComposto(query) ==
    \/ Includes(query, QueryText.em13)
    \/ \E i \in 1..(Len(query) - 3) :
          /\ SubSeq(query, i, i + 1) = STR_EF
          /\ IsDigit(query[i + 2])
          /\ IsDigit(query[i + 3])

Grafias(disciplina) ==
    LET d == ToLowerCase(disciplina)
    IN  {d, SemAcentos(d), ToUpperCase(d), ToUpperCase(SemAcentos(d)), Capitalizar(d),
         Capitalizar(SemAcentos(d))}

\* C26: detectarAreaBNCC is case- and accent-insensitive: every spelling of a subject name
\* of its tables (accented or not, in any case) resolves to the same area code at the same
\* level.
C26_SemAcentoEMaiusculas ==
    call.fn = "detectarAreaBNCC" =>
        \A grafia \in Grafias(call.args[1]) :
            detectarAreaBNCC(grafia, call.args[2]) = call.ret

\* 'Inglês' at level fundamental resolves to LI while 'ingles' resolves to no area
C26_Witness ==
    /\ call.fn = "detectarAreaBNCC"
    /\ call.args = << <<"I", "n", "g", "l", "e^", "s">>, "fundamental" >>
    /\ call.ret = <<"L", "I">>
    /\ detectarAreaBNCC(<<"i", "n", "g", "l", "e", "s">>, "fundamental") = << >>

\* the translation of the area letters of the fundamental codes the claim states
TraducaoFundamental ==
    {<< <<"H", "I">>, <<"C", "H", "S">> >>, << <<"G", "E">>, <<"C", "H", "S">> >>,
     << <<"L", "P">>, <<"L", "G", "G">> >>, << <<"A", "R">>, <<"L", "G", "G">> >>,
     << <<"E", "F">>, <<"L", "G", "G">> >>, << <<"L", "I">>, <<"L", "G", "G">> >>,
     << <<"M", "A">>, <<"M", "A", "T">> >>, << <<"C", "I">>, <<"C", "N", "T">> >>}

\* C27: validarHabilidadeArea accepts every code without an expected area; with an expected
\* area of 2 letters it accepts exactly the codes whose area letters equal it; with one of 3
\* letters it accepts an EM code iff its area letters equal it and an EF code iff the
\* translation table maps its letters to the expected area; a string that is no well-formed
\* code is rejected whenever an area is expected.
C27_AreaDaHabilidade ==
    call.fn = "validarHabilidadeArea" =>
        LET codigo == call.args[1]
            areaEsperada == call.args[2]
            letras == AreaLettersOf(codigo)
        IN  /\ areaEsperada = << >> => call.ret
            /\ (areaEsperada # << >> /\ letras = << >>) => ~call.ret
            /\ (Len(areaEsperada) = 2 /\ letras # << >>) => (call.ret <=> letras = areaEsperada)
            /\ (Len(areaEsperada) = 3 /\ letras # << >> /\ StartsWith(codigo, STR_EM)) =>
                   (call.ret <=> letras = areaEsperada)
            /\ (Len(areaEsperada) = 3 /\ letras # << >> /\ StartsWith(codigo, STR_EF)) =>
                   (call.ret <=> <<letras, areaEsperada>> \in TraducaoFundamental)

\* the fundamental code EF09LI01 accepted for the expected area LGG
C27_Witness ==
    /\ call.fn = "validarHabilidadeArea"
    /\ call.args = << <<"E", "F", "0", "9", "L", "I", "0", "1">>, <<"L", "G", "G">> >>
    /\ call.ret

\* an EF code of one grade: EF, 0 and the grade digit, as EF09GE01 and EF06MA01
CodigoDeUmAno(codigo) ==
    /\ Len(codigo) = 8
    /\ Prefixo(codigo) = <<"E", "F">>
    /\ codigo[3] = "0"
    /\ IsDigit(codigo[4])

\* C28: in the TypeScript validators extrairAnoDaHabilidade returns the grade encoded in an
\* EF code (the 9 of EF09, the 6 of EF06) and validarHabilidadeAno accepts such a code iff
\* that grade is within 1 of the expected grade.
C28_AnoCodificadoTS ==
    /\ (call.fn = "extrairAnoDaHabilidadeTS" /\ CodigoDeUmAno(call.args[1])) =>
           call.ret = Some(DigitVal(call.args[1][4]))
    /\ (call.fn = "validarHabilidadeAnoTS" /\ CodigoDeUmAno(call.args[1])
        /\ call.args[2] # None) =>
           (call.ret <=> Abs(DigitVal(call.args[1][4]) - call.args[2][1]) <= 1)

\* the TypeScript validarHabilidadeAno rejects a code of grade 9 for the expected grade 9
C28_Witness ==
    /\ call.fn = "validarHabilidadeAnoTS"
    /\ call.args = << <<"E", "F", "0", "9", "M", "A", "0", "1">>, Some(9) >>
    /\ call.ret = FALSE
    /\ extrairAnoDaHabilidadeTS(call.args[1]) = Some(0)

FaltaCampo == CampoAusente(body.tema) \/ CampoAusente(body.disciplina) \/ CampoAusente(body.serie)

\* the responses of the request in progress: none before it is over, exactly one after, with
\* the status the path of the request determines
RespostaDaRequisicao ==
    /\ Len(responses) <= 1
    /\ pc = "done" <=> Len(responses) = 1
    /\ pc = "done" =>
           /\ responses[1] \in {200, 400, 500}
           /\ responses[1] = 400 <=> FaltaCampo
           /\ bncc.status = "rejeitou" => responses[1] = 500
           /\ responses[1] = 200 => (bncc.status = "retornou" /\ Len(generatorArgs) = 1)
           /\ (responses[1] = 500 /\ bncc.status # "rejeitou") => Len(generatorArgs) = 1

\* C29: every request receives exactly one response, provided the retriever and the
\* generator calls return or throw: 400 for a missing field, 500 when the initialisation
\* of the retrieval or the generator throws, 200 otherwise; never two responses, and a
\* request that was received is eventually answered.
C29_ExatamenteUmaResposta ==
    /\ []RespostaDaRequisicao
    /\ (pc # "idle") ~> (pc = "done" /\ Len(responses) = 1)

\* a request one of whose queries threw, answered 200 once the generator resolved
C29_Witness ==
    /\ pc = "done"
    /\ responses = <<200>>
    /\ \E k \in 1..Len(outcomes) : ~outcomes[k].ok
    /\ \E k \in 1..Len(outcomes) : outcomes[k].ok

\* the codes of a text all pass the checks the scorer applies in a recorded call: level,
\* area when the area is known, grade when the grade is known and the level is fundamental
CodigosTodosValidos(text, nivelEscolar, areaBNCC, anoEsperado) ==
    \A k \in 1..Len(CodigosDoTexto(text)) :
        LET codigo == CodigosDoTexto(text)[k]
        IN  /\ validarHabilidadeNivel(codigo, nivelEscolar)
            /\ areaBNCC # << >> => validarHabilidadeArea(codigo, areaBNCC)
            /\ (anoEsperado # None /\ nivelEscolar = "fundamental") =>
                   validarHabilidadeAno(codigo, anoEsperado)

\* C30: every passage filtrarNodesPorRelevancia returns has the net penalty 0 or that of one
\* phrase of the other level (-20) and contains no code that fails the level, area or grade
\* check; the filter keeps a passage iff its net penalty is at least -30, the second
\* condition of the filter (a boost or nivelCorreto) removes nothing.
C30_SoPenalidadeDeUmaFrase ==
    call.fn = "filtrarNodesPorRelevancia" =>
        /\ \A k \in 1..Len(call.ret) :
               /\ call.ret[k].penalizacaoNivel \in {0, PENALIDADE_MENCIONOU_NIVEL_ERRADO}
               /\ CodigosTodosValidos(call.ret[k].text, detectarNivelEscolar(call.args[4]),
                                      call.args[5], extrairNumeroAno(call.args[4]))
               /\ call.ret[k].matchCount > 0 \/ call.ret[k].nivelCorreto
        /\ \A j \in 1..Len(Enriquecidos) :
               Mantido(Enriquecidos[j]) <=> Enriquecidos[j].penalizacaoNivel >= CORTE_PENALIDADE
        /\ Len(call.ret) = Cardinality({j \in 1..Len(Enriquecidos) :
                                           Enriquecidos[j].penalizacaoNivel >= CORTE_PENALIDADE})

\* a fundamental call that keeps the passage with a valid code and one phrase of the other
\* level, with the net penalty -20
C30_Witness ==
    /\ call.fn = "filtrarNodesPorRelevancia"
    /\ call.args[4] = SERIE_9_ANO
    /\ Len(call.args[1]) = 1
    /\ Len(CodigosDoTexto(call.args[1][1].text)) = 1
    /\ Len(call.ret) = 1
    /\ call.ret[1].penalizacaoNivel = PENALIDADE_MENCIONOU_NIVEL_ERRADO

====
